---- MODULE Spec2Model ----
(***************************************************************************)
(* Model of mcp-windows-desktop-automation:                                *)
(*   - the WebSocket transport adapter and setupServer (server/server.ts), *)
(*   - the tool handlers and the response helpers (tools/*.ts, types.ts),  *)
(*   - the entry point's argument parsing and startServer (index.ts).      *)
(***************************************************************************)
EXTENDS Integers, Sequences, FiniteSets, TLC

(***************************************************************************)
(* JSON text.  A text is a sequence of one-character strings; a value is a *)
(* tagged tuple: <<"null">>, <<"bool", b>>, <<"num", n>>, <<"str", chars>>,*)
(* <<"arr", values>>, <<"obj", <<key, value>> pairs in insertion order>>.  *)
(* JSONParse and JSONStringify are the built-ins the adapter calls         *)
(* (server.ts lines 26 and 57), restricted to this subset of JSON:         *)
(* integers only; of the string escapes, \" \\ \/ \n \t \r \f but not \b   *)
(* and \u; object keys are not integer-like (JavaScript would reorder      *)
(* those).                                                                 *)
(***************************************************************************)
Digits == <<"0", "1", "2", "3", "4", "5", "6", "7", "8", "9">>

IsDigit(ch) == \E d \in 1..Len(Digits) : Digits[d] = ch

DigitValue(ch) == (CHOOSE d \in 1..Len(Digits) : Digits[d] = ch) - 1

JSONFail == [ok |-> FALSE, val |-> <<"undefined">>, next |-> 0]

\* Whitespace between tokens, and the control characters with a letter escape.
Whitespace == {" ", "\n", "\t", "\r"}
ControlChars == <<"\n", "\t", "\r", "\f">>
EscapeLetters == <<"n", "t", "r", "f">>
LetterOf(ch) == EscapeLetters[CHOOSE k \in 1..Len(ControlChars) : ControlChars[k] = ch]
ControlOf(letter) ==
  ControlChars[CHOOSE k \in 1..Len(EscapeLetters) : EscapeLetters[k] = letter]
IsControl(ch) == \E k \in 1..Len(ControlChars) : ControlChars[k] = ch
IsEscapeLetter(ch) == \E k \in 1..Len(EscapeLetters) : EscapeLetters[k] = ch

RECURSIVE SkipWs(_, _)
SkipWs(s, i) == IF i <= Len(s) /\ s[i] \in Whitespace THEN SkipWs(s, i + 1) ELSE i

RECURSIVE ParseDigits(_, _, _)
ParseDigits(s, i, acc) ==
  IF i <= Len(s) /\ IsDigit(s[i])
    THEN ParseDigits(s, i + 1, acc * 10 + DigitValue(s[i]))
    ELSE [ok |-> TRUE, val |-> <<"num", acc>>, next |-> i]

\* A number: one digit, or a non-zero digit followed by digits (no leading zero).
ParseNumber(s, i) ==
  IF s[i] = "0" THEN [ok |-> TRUE, val |-> <<"num", 0>>, next |-> i + 1]
  ELSE ParseDigits(s, i, 0)

\* The characters of a string up to its closing quote.  A backslash takes the next
\* character with it; a raw control character is not allowed inside a string.
RECURSIVE ParseChars(_, _, _)
ParseChars(s, i, acc) ==
  IF i > Len(s) THEN JSONFail
  ELSE IF s[i] = "\"" THEN [ok |-> TRUE, val |-> <<"str", acc>>, next |-> i + 1]
  ELSE IF IsControl(s[i]) THEN JSONFail
  ELSE IF s[i] = "\\"
    THEN IF i + 1 > Len(s) THEN JSONFail
         ELSE IF s[i + 1] \in {"\"", "\\", "/"}
           THEN ParseChars(s, i + 2, Append(acc, s[i + 1]))
         ELSE IF IsEscapeLetter(s[i + 1])
           THEN ParseChars(s, i + 2, Append(acc, ControlOf(s[i + 1])))
         ELSE JSONFail
  ELSE ParseChars(s, i + 1, Append(acc, s[i]))

IsLiteral(s, i, lit) ==
  /\ i + Len(lit) - 1 <= Len(s)
  /\ \A k \in 1..Len(lit) : s[i + k - 1] = lit[k]

\* Object property assignment: a repeated key keeps its place and takes the new value.
PutMember(pairs, k, v) ==
  IF \E j \in 1..Len(pairs) : pairs[j][1] = k
    THEN [j \in 1..Len(pairs) |-> IF pairs[j][1] = k THEN <<k, v>> ELSE pairs[j]]
    ELSE Append(pairs, <<k, v>>)

RECURSIVE ParseValue(_, _), ParseElements(_, _, _), ParseMembers(_, _, _)
ParseValue(s, i0) ==
  LET i == SkipWs(s, i0) IN
  IF i > Len(s) THEN JSONFail
  ELSE IF IsDigit(s[i]) THEN ParseNumber(s, i)
  ELSE IF s[i] = "-"
    THEN IF i + 1 <= Len(s) /\ IsDigit(s[i + 1])
           THEN LET r == ParseNumber(s, i + 1) IN
                [ok |-> TRUE, val |-> <<"num", 0 - r.val[2]>>, next |-> r.next]
           ELSE JSONFail
  ELSE IF s[i] = "\"" THEN ParseChars(s, i + 1, <<>>)
  ELSE IF IsLiteral(s, i, <<"n", "u", "l", "l">>)
    THEN [ok |-> TRUE, val |-> <<"null">>, next |-> i + 4]
  ELSE IF IsLiteral(s, i, <<"t", "r", "u", "e">>)
    THEN [ok |-> TRUE, val |-> <<"bool", TRUE>>, next |-> i + 4]
  ELSE IF IsLiteral(s, i, <<"f", "a", "l", "s", "e">>)
    THEN [ok |-> TRUE, val |-> <<"bool", FALSE>>, next |-> i + 5]
  ELSE IF s[i] = "["
    THEN LET j == SkipWs(s, i + 1) IN
         IF j <= Len(s) /\ s[j] = "]"
           THEN [ok |-> TRUE, val |-> <<"arr", <<>>>>, next |-> j + 1]
           ELSE ParseElements(s, j, <<>>)
  ELSE IF s[i] = "{"
    THEN LET j == SkipWs(s, i + 1) IN
         IF j <= Len(s) /\ s[j] = "}"
           THEN [ok |-> TRUE, val |-> <<"obj", <<>>>>, next |-> j + 1]
           ELSE ParseMembers(s, j, <<>>)
  ELSE JSONFail

\* After "[" or ",": a value, then "," (more elements) or "]".
ParseElements(s, i, acc) ==
  LET r == ParseValue(s, i) IN
  IF ~r.ok THEN JSONFail
  ELSE LET j == SkipWs(s, r.next) IN
       IF j > Len(s) THEN JSONFail
       ELSE IF s[j] = "," THEN ParseElements(s, j + 1, Append(acc, r.val))
       ELSE IF s[j] = "]"
         THEN [ok |-> TRUE, val |-> <<"arr", Append(acc, r.val)>>, next |-> j + 1]
       ELSE JSONFail

\* After "{" or ",": a string key, ":", a value, then "," (more members) or "}".
ParseMembers(s, i0, acc) ==
  LET i == SkipWs(s, i0) IN
  IF i > Len(s) \/ s[i] # "\"" THEN JSONFail
  ELSE LET k == ParseChars(s, i + 1, <<>>) IN
       IF ~k.ok THEN JSONFail
       ELSE LET c == SkipWs(s, k.next) IN
            IF c > Len(s) \/ s[c] # ":" THEN JSONFail
            ELSE LET r == ParseValue(s, c + 1) IN
                 IF ~r.ok THEN JSONFail
                 ELSE LET j == SkipWs(s, r.next)
                          members == PutMember(acc, k.val[2], r.val)
                      IN IF j > Len(s) THEN JSONFail
                         ELSE IF s[j] = "," THEN ParseMembers(s, j + 1, members)
                         ELSE IF s[j] = "}"
                           THEN [ok |-> TRUE, val |-> <<"obj", members>>, next |-> j + 1]
                         ELSE JSONFail

\* JSON.parse(text): ok = FALSE stands for the SyntaxError it throws.
JSONParse(s) ==
  LET r == ParseValue(s, 1) IN
  IF r.ok /\ SkipWs(s, r.next) = Len(s) + 1
    THEN [ok |-> TRUE, val |-> r.val]
    ELSE [ok |-> FALSE, val |-> <<"undefined">>]

RECURSIVE NumberText(_)
NumberText(n) ==
  IF n < 0 THEN <<"-">> \o NumberText(0 - n)
  ELSE IF n < 10 THEN <<Digits[n + 1]>>
  ELSE Append(NumberText(n \div 10), Digits[(n % 10) + 1])

\* String characters written as they are.
RECURSIVE RawChars(_)
RawChars(cs) == IF cs = <<>> THEN <<>> ELSE <<cs[1]>> \o RawChars(Tail(cs))

\* The characters of a string as JSON.stringify writes them: quote, backslash and
\* control characters escaped.
RECURSIVE EscapeChars(_)
EscapeChars(cs) ==
  IF cs = <<>> THEN <<>>
  ELSE (IF cs[1] \in {"\"", "\\"} THEN <<"\\", cs[1]>>
        ELSE IF IsControl(cs[1]) THEN <<"\\", LetterOf(cs[1])>>
        ELSE <<cs[1]>>) \o EscapeChars(Tail(cs))

RECURSIVE JSONStringify(_), StringifyElements(_), StringifyMembers(_)
\* JSON.stringify(value): compact, no whitespace.
JSONStringify(v) ==
  IF v[1] = "null" THEN <<"n", "u", "l", "l">>
  ELSE IF v[1] = "bool"
    THEN IF v[2] THEN <<"t", "r", "u", "e">> ELSE <<"f", "a", "l", "s", "e">>
  ELSE IF v[1] = "num" THEN NumberText(v[2])
  ELSE IF v[1] = "str" THEN <<"\"">> \o EscapeChars(v[2]) \o <<"\"">>
  ELSE IF v[1] = "arr" THEN <<"[">> \o StringifyElements(v[2]) \o <<"]">>
  ELSE <<"{">> \o StringifyMembers(v[2]) \o <<"}">>

StringifyElements(vs) ==
  IF vs = <<>> THEN <<>>
  ELSE IF Len(vs) = 1 THEN JSONStringify(vs[1])
  ELSE JSONStringify(vs[1]) \o <<",">> \o StringifyElements(Tail(vs))

StringifyMembers(ps) ==
  IF ps = <<>> THEN <<>>
  ELSE LET m == <<"\"">> \o EscapeChars(ps[1][1]) \o <<"\"", ":">>
                  \o JSONStringify(ps[1][2]) IN
       IF Len(ps) = 1 THEN m ELSE m \o <<",">> \o StringifyMembers(Tail(ps))

(***************************************************************************)
(* Bounds of the model and the input sets drawn from.                      *)
(***************************************************************************)
MaxConn == 2        \* connections the listening socket accepts
MaxSteps == 3       \* socket events, peer closes and send()/close() calls, over all connections

\* Inbound frames: a well-formed text, its truncation, and the empty frame.
FrameObject == <<"{", "\"", "i", "d", "\"", ":", "1", "}">>
FrameTruncated == <<"{", "\"", "i", "d", "\"", ":", "1">>
Frames == {FrameObject, <<>>, FrameTruncated}

\* Outbound structured messages: {"id":1,"result":null} and {"id":2,"error":"no"}.
MessageResult == <<"obj", << <<<<"i", "d">>, <<"num", 1>>>>,
                            <<<<"r", "e", "s", "u", "l", "t">>, <<"null">>>> >> >>
MessageError == <<"obj", << <<<<"i", "d">>, <<"num", 2>>>>,
                           <<<<"e", "r", "r", "o", "r">>, <<"str", <<"n", "o">>>>>> >> >>
Messages == {MessageResult, MessageError}

\* Structured messages for the round trip: an id (number or string) and a result or
\* params member whose value runs over scalars (strings with characters that need
\* escaping among them), arrays and error-like objects.
Scalars ==
  {<<"null">>, <<"bool", TRUE>>, <<"bool", FALSE>>,
   <<"num", 0>>, <<"num", 7>>, <<"num", 0 - 12>>, <<"num", 100>>,
   <<"str", <<>>>>, <<"str", <<"o", "k">>>>, <<"str", <<"a", "\"", "b">>>>,
   <<"str", <<"\\">>>>, <<"str", <<"x", "\n", "y">>>>}
Elements == {<<"null">>, <<"num", 0 - 12>>, <<"str", <<"a", "\"", "b">>>>}
Payloads ==
  Scalars \cup {<<"arr", <<>>>>, <<"obj", <<>>>>}
    \cup {<<"arr", <<a, b>>>> : a, b \in Elements}
    \cup {<<"obj", << <<<<"c", "o", "d", "e">>, <<"num", 0 - 32601>>>>,
                      <<<<"d", "a", "t", "a">>, d>> >> >> : d \in Elements}
RoundTripMessages ==
  {<<"obj", << <<<<"i", "d">>, i>>, <<k, v>> >> >> :
     i \in {<<"num", 1>>, <<"str", <<"a", "-", "1">>>>},
     k \in {<<"r", "e", "s", "u", "l", "t">>, <<"p", "a", "r", "a", "m", "s">>},
     v \in Payloads}

\* ServerConfig.transport values tried, and ServerConfig.port (absent: <<>>).
TransportKinds == {"stdio", "websocket", "http", ""}
Ports == {<<>>, <<0>>, <<8080>>}

(***************************************************************************)
(* The logger (utils/logger/logger.ts), one per process.                   *)
(***************************************************************************)
\* LogLevel
VERBOSE == 0
DEBUG == 1
INFO == 2
WARN == 3
ERROR == 4

LogLevels == {VERBOSE, DEBUG, INFO, WARN, ERROR}

\* A logger that writes the line when the configured level is at least the method's.
LogAtOrAbove(out, configured, methodLevel, message) ==
  IF configured >= methodLevel THEN Append(out, <<methodLevel, message>>) ELSE out

\* Logger.verbose/debug/info/warn/error: the line is written when the configured
\* level is at most the method's level.
Log(out, configured, methodLevel, message) ==
  IF configured <= methodLevel THEN Append(out, <<methodLevel, message>>) ELSE out

VARIABLES
  level          \* the logger's level

(***************************************************************************)
(* The socket transport adapter and setupServer (server/server.ts).        *)
(***************************************************************************)
VARIABLES
  config,        \* the ServerConfig given to setupServer
  setup,         \* setupServer: "idle", "connecting" (suspended at its await),
                 \* "returned" or "threw"
  mcpServers,    \* McpServer instances constructed so far (numbered 1..mcpServers)
  stdioTransports, \* StdioServerTransport instances constructed
  httpServer,    \* "none" or "listening"
  listenPort,    \* the port given to httpServer.listen (0: not listening)
  ws,            \* per connection: the adapter's ws field, "socket" or "null"
  readyState,    \* per connection: the socket's "OPEN", "CLOSING" or "CLOSED"
  connectedTo,   \* per connection: the McpServer its adapter was connected to
  events,        \* per connection: the socket events and close() calls so far, each
                 \* with the number of times it invoked onmessage, onerror, onclose
  writes,        \* per connection: the socket's send(data, cb) calls
  sends,         \* per connection: the adapter's send(message) calls
  listeners,     \* per connection: how many times the adapter has registered its
                 \* 'message', 'close' and 'error' listeners on the socket
  serverConsole, \* the logger's lines written by setupServer and the adapters
  steps          \* socket events and adapter calls so far (bounds the run)

transportVars == <<config, setup, mcpServers, stdioTransports, httpServer, listenPort,
                   ws, readyState, connectedTo, events, writes, sends, listeners,
                   serverConsole, steps>>


Conns == 1..Len(ws)

InitTransportVars ==
  /\ setup = "idle"
  /\ mcpServers = 0
  /\ stdioTransports = 0
  /\ httpServer = "none"
  /\ listenPort = 0
  /\ ws = <<>>
  /\ readyState = <<>>
  /\ connectedTo = <<>>
  /\ events = <<>>
  /\ writes = <<>>
  /\ sends = <<>>
  /\ listeners = <<>>
  /\ serverConsole = <<>>
  /\ steps = 0

DefaultPort == 3000

\* setupServer(config) up to its first suspension: one McpServer, then the transport the
\* config names.  The stdio branch logs, constructs the transport and suspends at
\* "await server.connect(transport)"; the websocket branch has no await and returns; any
\* other transport throws.
SetupServer ==
  /\ setup = "idle"
  /\ mcpServers' = mcpServers + 1
  /\ IF config.transport = "stdio"
       THEN /\ serverConsole' = Log(serverConsole, level, INFO, "Using stdio transport")
            /\ stdioTransports' = stdioTransports + 1
            /\ setup' = "connecting"
            /\ UNCHANGED <<httpServer, listenPort>>
     ELSE IF config.transport = "websocket"
       THEN /\ serverConsole' =
                 Log(serverConsole, level, INFO,
                     "Using WebSocket transport on port "
                       \o (IF config.port = <<>> THEN "undefined"
                           ELSE ToString(config.port[1])))
            /\ httpServer' = "listening"
            /\ listenPort' = IF config.port = <<>> \/ config.port[1] = 0
                               THEN DefaultPort ELSE config.port[1]
            /\ setup' = "returned"
            /\ UNCHANGED stdioTransports
     ELSE /\ setup' = "threw"
          /\ UNCHANGED <<stdioTransports, httpServer, listenPort, serverConsole>>
  /\ UNCHANGED <<config, ws, readyState, connectedTo, events, writes, sends, listeners>>

\* The stdio branch resumed after "await server.connect(transport)": it returns the
\* server when the connect resolved, and setupServer rejects when the connect rejected
\* (the transport is constructed and the line logged by then).
SetupServerConnected(connectThrows) ==
  /\ setup = "connecting"
  /\ setup' = IF connectThrows THEN "threw" ELSE "returned"
  /\ UNCHANGED <<config, mcpServers, stdioTransports, httpServer, listenPort, ws,
                 readyState, connectedTo, events, writes, sends, listeners, serverConsole>>

\* The tools registered on the McpServer setupServer constructs, lines 93-108: none
\* (it is given capabilities only, and connected as constructed).
SetupServerRegistry == {}

\* The McpServer a new connection's adapter is connected to: the one setupServer made.
ConnectionServer == mcpServers

\* What start() calls back: nothing.
StartCall ==
  [event |-> "start()", data |-> <<>>, onmessage |-> 0, delivered |-> <<"undefined">>,
   onerror |-> 0, onclose |-> 0]

\* wss.on('connection'): logs, makes a new adapter over the accepted socket and connects
\* it to the server.  What server.connect does with the adapter is the SDK's doing:
\* connectStarts says that it calls the adapter's start() before it suspends.
Connection(connectStarts) ==
  /\ httpServer = "listening"
  /\ Len(ws) < MaxConn
  /\ ws' = Append(ws, "socket")
  /\ readyState' = Append(readyState, "OPEN")
  /\ connectedTo' = Append(connectedTo, ConnectionServer)
  /\ events' = Append(events, IF connectStarts THEN <<StartCall>> ELSE <<>>)
  /\ writes' = Append(writes, <<>>)
  /\ sends' = Append(sends, <<>>)
  /\ listeners' = Append(listeners, 1)
  /\ serverConsole' =
       LET accepted == Log(serverConsole, level, INFO, "New WebSocket connection") IN
       IF connectStarts THEN Log(accepted, level, INFO, "WebSocket transport started")
       ELSE accepted
  /\ UNCHANGED <<config, setup, mcpServers, stdioTransports, httpServer, listenPort>>

\* A socket event runs every listener registered for it: the callback counts of one
\* listener's run, times the registrations.
Dispatch(c, e) ==
  [e EXCEPT !.onmessage = @ * listeners[c], !.onerror = @ * listeners[c],
            !.onclose = @ * listeners[c]]

\* A start() that registers the socket listeners once more.
StartRegistersListeners(c) ==
  /\ events' = [events EXCEPT ![c] = Append(@, StartCall)]
  /\ listeners' = [listeners EXCEPT ![c] = @ + 1]
  /\ serverConsole' = Log(serverConsole, level, INFO, "WebSocket transport started")
  /\ UNCHANGED <<config, setup, mcpServers, stdioTransports, httpServer, listenPort,
                 ws, readyState, connectedTo, writes, sends>>

\* start(): logs, and touches neither the socket nor its listeners.
Start(c) ==
  /\ events' = [events EXCEPT ![c] = Append(@, StartCall)]
  /\ serverConsole' = Log(serverConsole, level, INFO, "WebSocket transport started")
  /\ UNCHANGED <<config, setup, mcpServers, stdioTransports, httpServer, listenPort,
                 ws, readyState, connectedTo, writes, sends, listeners>>

NoValue == <<"undefined">>

\* MessageListener with a catch that swallows the parse error.
MessageListenerSilent(data, onmessageThrows) ==
  LET parsed == JSONParse(data) IN
  [event |-> "message", data |-> data,
   onmessage |-> IF parsed.ok THEN 1 ELSE 0,
   delivered |-> IF parsed.ok THEN parsed.val ELSE NoValue,
   onerror |-> 0, onclose |-> 0]

\* What the 'message' listener does with a frame: parse, then onmessage; a throw of
\* either lands in the catch, which calls onerror.
MessageListener(data, onmessageThrows) ==
  LET parsed == JSONParse(data) IN
  [event |-> "message", data |-> data,
   onmessage |-> IF parsed.ok THEN 1 ELSE 0,
   delivered |-> IF parsed.ok THEN parsed.val ELSE NoValue,
   onerror |-> IF parsed.ok /\ ~onmessageThrows THEN 0 ELSE 1,
   onclose |-> 0]

\* ws.on('message'): the socket delivers a frame (it still does while closing).
OnMessage(c, data, onmessageThrows) ==
  /\ readyState[c] # "CLOSED"
  /\ events' = [events EXCEPT ![c] = Append(@, Dispatch(c, MessageListener(data, onmessageThrows)))]
  /\ UNCHANGED <<config, setup, mcpServers, stdioTransports, httpServer, listenPort,
                 listeners, serverConsole,
                 ws, readyState, connectedTo, writes, sends>>

\* An error listener that also runs the close callback.
ErrorListenerCloses ==
  [event |-> "error", data |-> <<>>, onmessage |-> 0, delivered |-> NoValue,
   onerror |-> 1, onclose |-> 1]

\* What the 'error' listener calls back: onerror with the socket's error.
ErrorListener ==
  [event |-> "error", data |-> <<>>, onmessage |-> 0, delivered |-> NoValue,
   onerror |-> 1, onclose |-> 0]

\* An error event after which the adapter holds the socket again.
OnErrorReopens(c, closing) ==
  /\ readyState[c] # "CLOSED"
  /\ readyState' = [readyState EXCEPT ![c] = IF closing THEN "CLOSING" ELSE @]
  /\ events' = [events EXCEPT ![c] = Append(@, Dispatch(c, ErrorListener))]
  /\ ws' = [ws EXCEPT ![c] = "socket"]
  /\ UNCHANGED <<config, setup, mcpServers, stdioTransports, httpServer, listenPort,
                 listeners, serverConsole, connectedTo, writes, sends>>

\* ws.on('error'): forwarded to onerror.  The listener changes nothing.  closing says
\* that the socket library began to close the socket before it emitted the event (as
\* it does for a protocol error in a received frame): the socket is then CLOSING when
\* the listener runs and after it.
OnError(c, closing) ==
  /\ readyState[c] # "CLOSED"
  /\ readyState' = [readyState EXCEPT ![c] = IF closing THEN "CLOSING" ELSE @]
  /\ events' = [events EXCEPT ![c] = Append(@, Dispatch(c, ErrorListener))]
  /\ UNCHANGED <<config, setup, mcpServers, stdioTransports, httpServer, listenPort,
                 listeners, serverConsole,
                 ws, connectedTo, writes, sends>>

CloseListener ==
  [event |-> "close", data |-> <<>>, onmessage |-> 0, delivered |-> NoValue,
   onerror |-> 0, onclose |-> 1]

\* ws.on('close'): the socket emits it once; the field is cleared, onclose called.
OnClose(c) ==
  /\ readyState[c] # "CLOSED"
  /\ readyState' = [readyState EXCEPT ![c] = "CLOSED"]
  /\ ws' = [ws EXCEPT ![c] = "null"]
  /\ events' = [events EXCEPT ![c] = Append(@, Dispatch(c, CloseListener))]
  /\ UNCHANGED <<config, setup, mcpServers, stdioTransports, httpServer, listenPort,
                 listeners, serverConsole,
                 connectedTo, writes, sends>>

\* The peer begins the closing handshake: the socket answers it and is CLOSING until
\* its 'close' event.  No listener of the adapter runs, so the adapter keeps its
\* socket field and learns nothing of it.
PeerCloses(c) ==
  /\ readyState[c] = "OPEN"
  /\ readyState' = [readyState EXCEPT ![c] = "CLOSING"]
  /\ UNCHANGED <<config, setup, mcpServers, stdioTransports, httpServer, listenPort,
                 listeners, serverConsole,
                 ws, connectedTo, events, writes, sends>>

\* send(message), lines 52-64: without a socket it throws (the promise is rejected and
\* nothing is written: write = 0); with one, the promise is pending on the completion
\* callback of the one socket write it makes.
SendPromise(c, message) ==
  IF ws[c] = "null"
    THEN [message |-> message, promise |-> "rejected",
          reason |-> "WebSocket not connected", write |-> 0]
    ELSE [message |-> message, promise |-> "pending",
          reason |-> "", write |-> Len(writes[c]) + 1]

\* send(message)
Send(c, message) ==
  LET p == SendPromise(c, message) IN
  /\ sends' = [sends EXCEPT ![c] = Append(@, p)]
  /\ writes' = IF p.write = 0 THEN writes
               ELSE [writes EXCEPT ![c] =
                       Append(@, [data |-> JSONStringify(message), cb |-> "pending",
                                  open |-> readyState[c] = "OPEN"])]
  /\ UNCHANGED <<config, setup, mcpServers, stdioTransports, httpServer, listenPort,
                 listeners, serverConsole,
                 ws, readyState, connectedTo, events>>

\* SendCallback that resolves whatever the write reported.
SendCallbackIgnoresError(p, error) == [p EXCEPT !.promise = "resolved", !.reason = ""]

\* The completion callback given to ws.send: reject(error) or resolve().
SendCallback(p, error) ==
  [p EXCEPT !.promise = IF error THEN "rejected" ELSE "resolved",
            !.reason = IF error THEN "write failed" ELSE ""]

\* A completion callback that gives the socket up when the write failed.
WriteDoneDropsSocket(c, w, error) ==
  /\ writes[c][w].cb = "pending"
  /\ error \/ (writes[c][w].open /\ readyState[c] # "CLOSED")
  /\ writes' = [writes EXCEPT ![c][w].cb = IF error THEN "error" ELSE "ok"]
  /\ sends' = [sends EXCEPT ![c] =
                 [i \in 1..Len(@) |->
                    IF @[i].write = w THEN SendCallback(@[i], error) ELSE @[i]]]
  /\ ws' = [ws EXCEPT ![c] = IF error THEN "null" ELSE @]
  /\ UNCHANGED <<config, setup, mcpServers, stdioTransports, httpServer, listenPort,
                 listeners, serverConsole, readyState, connectedTo, events>>

\* The socket calls a write's completion callback, once: with an error when the socket
\* was not open as the write was handed to it or has closed since, else with or
\* without one.
WriteDone(c, w, error) ==
  /\ writes[c][w].cb = "pending"
  /\ error \/ (writes[c][w].open /\ readyState[c] # "CLOSED")
  /\ writes' = [writes EXCEPT ![c][w].cb = IF error THEN "error" ELSE "ok"]
  /\ sends' = [sends EXCEPT ![c] =
                 [i \in 1..Len(@) |->
                    IF @[i].write = w THEN SendCallback(@[i], error) ELSE @[i]]]
  /\ UNCHANGED <<config, setup, mcpServers, stdioTransports, httpServer, listenPort,
                 listeners, serverConsole,
                 ws, readyState, connectedTo, events>>

\* CloseCall of a close() that also calls onclose itself.
CloseCallNotifies ==
  [event |-> "close()", data |-> <<>>, onmessage |-> 0, delivered |-> NoValue,
   onerror |-> 0, onclose |-> 1]

\* What close() calls back: nothing (onclose is left to the socket's 'close' event).
CloseCall ==
  [event |-> "close()", data |-> <<>>, onmessage |-> 0, delivered |-> NoValue,
   onerror |-> 0, onclose |-> 0]

\* Close that starts the closing handshake and keeps the field.
CloseKeepsSocket(c) ==
  /\ readyState' = [readyState EXCEPT ![c] = IF @ = "OPEN" THEN "CLOSING" ELSE @]
  /\ events' = [events EXCEPT ![c] = Append(@, CloseCall)]
  /\ UNCHANGED <<config, setup, mcpServers, stdioTransports, httpServer, listenPort,
                 listeners, serverConsole,
                 ws, connectedTo, writes, sends>>

\* close(): with a socket, start its closing handshake and clear the field.
Close(c) ==
  /\ IF ws[c] # "null"
       THEN /\ readyState' = [readyState EXCEPT ![c] = IF @ = "OPEN" THEN "CLOSING" ELSE @]
            /\ ws' = [ws EXCEPT ![c] = "null"]
       ELSE UNCHANGED <<ws, readyState>>
  /\ events' = [events EXCEPT ![c] = Append(@, CloseCall)]
  /\ UNCHANGED <<config, setup, mcpServers, stdioTransports, httpServer, listenPort,
                 listeners, serverConsole,
                 connectedTo, writes, sends>>

(***************************************************************************)
(* The entry point (index.ts): argument parsing, the logger, startServer.  *)
(* Arguments and the strings computed from them are sequences of           *)
(* one-character strings, as JSON texts are.                               *)
(***************************************************************************)
StartsWith(s, prefix) ==
  /\ Len(prefix) <= Len(s)
  /\ \A k \in 1..Len(prefix) : s[k] = prefix[k]

\* args.find(pred): the first argument that satisfies it, <<>> (undefined) if none.
\* Every argument in Argvs is at least two characters long, so <<>> is never one.
Find(args, Pred(_)) ==
  IF \E i \in 1..Len(args) : Pred(args[i])
    THEN args[CHOOSE i \in 1..Len(args) :
                /\ Pred(args[i])
                /\ \A j \in 1..(i - 1) : ~Pred(args[j])]
    ELSE <<>>

\* s.split('=')
RECURSIVE Split(_, _, _)
Split(s, i, cur) ==
  IF i > Len(s) THEN <<cur>>
  ELSE IF s[i] = "=" THEN <<cur>> \o Split(s, i + 1, <<>>)
  ELSE Split(s, i + 1, Append(cur, s[i]))

\* A conversion that takes the whole text or nothing: NaN unless every character is
\* a digit.
ParseIntStrict(s) ==
  IF s # <<>> /\ \A k \in 1..Len(s) : IsDigit(s[k])
    THEN <<ParseDigits(s, 1, 0).val[2]>> ELSE <<>>

\* parseInt(s, 10) of an unsigned text: leading blanks skipped, then the digits up to
\* the first other character; no digit at all gives NaN, here <<>>.
ParseInt(s) ==
  LET i == SkipWs(s, 1) IN
  IF i <= Len(s) /\ IsDigit(s[i]) THEN <<ParseDigits(s, i, 0).val[2]>> ELSE <<>>

OptTransport == <<"-", "-", "t", "r", "a", "n", "s", "p", "o", "r", "t", "=">>
OptPort == <<"-", "-", "p", "o", "r", "t", "=">>
OptVerbose == <<"-", "-", "v", "e", "r", "b", "o", "s", "e">>
Stdio == <<"s", "t", "d", "i", "o">>
Websocket == <<"w", "e", "b", "s", "o", "c", "k", "e", "t">>

\* Command lines tried: each of the three options absent or present with a value
\* (one transport value is followed by a second '=').
TransportArgs == {<<>>, <<OptTransport \o Stdio>>, <<OptTransport \o Websocket>>,
                  <<OptTransport \o <<"t", "c", "p">>>>, <<OptTransport>>,
                  <<OptTransport \o <<"S", "t", "d", "i", "o">>>>,
                  <<OptTransport \o Stdio \o <<"=", "x">>>>}
PortArgs == {<<>>, <<OptPort \o <<"8", "0", "8", "0">>>>, <<OptPort \o <<"8", "0", "x">>>>,
             <<OptPort>>}
VerboseArgs == {<<>>, <<OptVerbose>>}
Argvs == {t \o p \o v : t \in TransportArgs, p \in PortArgs, v \in VerboseArgs}

VARIABLES
  argv,          \* process.argv.slice(2)
  pc,            \* "load" (module not yet evaluated), "main" (startServer not yet
                 \* called), "connecting" (startServer suspended at its await),
                 \* "running" (startServer returned), "exited" (process.exit)
  transport,     \* the transport kind parsed from argv
  port,          \* the port parsed from argv: <<n>>, or <<>> for NaN
  console,       \* the logger's lines written, <<level, message>> each
  exitCode,      \* <<>> while the process runs, <<code>> once process.exit(code) ran
  mainServer,    \* the McpServer startServer constructs: constructed, registered (tools,
                 \* resources and prompts), the transports connected to it
  mainTransports \* transports startServer constructed, by kind

startupVars == <<argv, pc, level, transport, port, console, exitCode, mainServer,
                 mainTransports>>

InitStartupVars ==
  /\ pc = "load"
  /\ level = INFO
  /\ transport = <<>>
  /\ port = <<>>
  /\ console = <<>>
  /\ exitCode = <<>>
  /\ mainServer = [constructed |-> FALSE, registered |-> FALSE, connected |-> 0]
  /\ mainTransports = [stdio |-> 0, websocket |-> 0]

IsTransportArg(arg) == StartsWith(arg, OptTransport)
IsPortArg(arg) == StartsWith(arg, OptPort)
IsVerboseArg(arg) == arg = OptVerbose

\* The module's top level, lines 118-139: parse the arguments, set the log level.
\* (The banner it prints with console.log is left out: nothing reads it.)
Load ==
  /\ pc = "load"
  /\ LET transportArg == Find(argv, IsTransportArg)
         portArg == Find(argv, IsPortArg)
         verboseArg == Find(argv, IsVerboseArg)
     IN /\ level' = IF verboseArg # <<>> THEN VERBOSE ELSE INFO
        /\ transport' = IF transportArg # <<>> THEN Split(transportArg, 1, <<>>)[2]
                        ELSE Stdio
        /\ port' = IF portArg # <<>> THEN ParseInt(Split(portArg, 1, <<>>)[2])
                   ELSE <<DefaultPort>>
  /\ pc' = "main"
  /\ UNCHANGED <<argv, console, exitCode, mainServer, mainTransports>>

\* log.setLevel(l), and a call of the logger method of a level (log.verbose,
\* log.debug, log.info, log.warn, log.error), as steps of the process.
SetLevel(l) ==
  /\ level' = l
  /\ UNCHANGED <<argv, pc, transport, port, console, exitCode, mainServer,
                 mainTransports>>

LogCall(methodLevel) ==
  /\ console' = Log(console, level, methodLevel, "message")
  /\ UNCHANGED <<argv, pc, level, transport, port, exitCode, mainServer,
                 mainTransports>>

\* ConnectTransport that takes every kind other than websocket for stdio.
ConnectTransportDefaultsToStdio(kind, out) ==
  IF kind = Websocket
    THEN [stdio |-> 0, websocket |-> 0,
          console |-> Log(Log(out, level, INFO,
                              "Using WebSocket transport on port "
                                \o (IF port = <<>> THEN "NaN" ELSE ToString(port[1]))),
                          level, ERROR, "WebSocket transport not fully implemented yet"),
          leaves |-> "exit"]
    ELSE [stdio |-> 1, websocket |-> 0,
          console |-> Log(out, level, INFO, "Using stdio transport"),
          leaves |-> "await"]

\* startServer's branch on the transport kind, lines 179-191, up to where it leaves
\* the synchronous part: what it constructs, what it logs, and how it leaves: "await"
\* (suspended at "await server.connect(transportInstance)"), "exit" (process.exit
\* inside the branch) or "throw" (into the catch).
ConnectTransport(kind, out) ==
  IF kind = Stdio
    THEN [stdio |-> 1, websocket |-> 0,
          console |-> Log(out, level, INFO, "Using stdio transport"),
          leaves |-> "await"]
  ELSE IF kind = Websocket
    THEN [stdio |-> 0, websocket |-> 0,
          console |-> Log(Log(out, level, INFO,
                              "Using WebSocket transport on port "
                                \o (IF port = <<>> THEN "NaN" ELSE ToString(port[1]))),
                          level, ERROR, "WebSocket transport not fully implemented yet"),
          leaves |-> "exit"]
  ELSE [stdio |-> 0, websocket |-> 0, console |-> out, leaves |-> "throw"]

\* startServer(), lines 154-198, up to its first suspension: the server constructed
\* and everything registered, then the branch on the transport kind; a throw is caught
\* (line 194), logged and ends the process with code 1.
StartServer ==
  /\ pc = "main"
  /\ LET r == ConnectTransport(transport, console) IN
     /\ mainServer' = [constructed |-> TRUE, registered |-> TRUE, connected |-> 0]
     /\ mainTransports' = [stdio |-> r.stdio, websocket |-> r.websocket]
     /\ console' = IF r.leaves = "throw"
                     THEN Log(r.console, level, ERROR, "Failed to start server")
                   ELSE r.console
     /\ exitCode' = IF r.leaves = "await" THEN <<>> ELSE <<1>>
     /\ pc' = IF r.leaves = "await" THEN "connecting" ELSE "exited"
  /\ UNCHANGED <<argv, level, transport, port>>

\* startServer() resumed after "await server.connect(transportInstance)", lines
\* 182-197: the success line at the level configured by then when the connect
\* resolved, the catch block when it rejected.
StartServerConnected(connectThrows) ==
  /\ pc = "connecting"
  /\ mainServer' = [mainServer EXCEPT !.connected = IF connectThrows THEN 0 ELSE 1]
  /\ console' = IF connectThrows
                   THEN Log(console, level, ERROR, "Failed to start server")
                 ELSE Log(console, level, INFO, "Server started successfully")
  /\ exitCode' = IF connectThrows THEN <<1>> ELSE <<>>
  /\ pc' = IF connectThrows THEN "exited" ELSE "running"
  /\ UNCHANGED <<argv, level, transport, port, mainTransports>>

(***************************************************************************)
(* The tool handlers (tools/mouse.ts, keyboard.ts, process.ts, window.ts,  *)
(* control.ts) and the response helpers (utils/types.ts).                  *)
(*                                                                         *)
(* A value the automation library returns is a record tagged by kind:      *)
(* "num", "str", "undefined", "rect" (left, top, right, bottom) or "point" *)
(* (x, y).  An optional numeric or string parameter is <<>> when absent    *)
(* and <<v>> when given.                                                   *)
(***************************************************************************)
Value(kind, num, str) ==
  [kind |-> kind, num |-> num, str |-> str,
   left |-> 0, top |-> 0, right |-> 0, bottom |-> 0, x |-> 0, y |-> 0]

Num(n) == Value("num", n, "")
Str(t) == Value("str", 0, t)
Undefined == Value("undefined", 0, "")
Rect(l, t, r, b) == [Value("rect", 0, "") EXCEPT !.left = l, !.top = t, !.right = r, !.bottom = b]
Point(px, py) == [Value("point", 0, "") EXCEPT !.x = px, !.y = py]

\* An interpolation that shows every value as an object.
ShowAsObject(v) == "[object Object]"

\* `${value}` in a template literal.
Show(v) ==
  IF v.kind = "num" THEN ToString(v.num)
  ELSE IF v.kind = "str" THEN v.str
  ELSE IF v.kind = "undefined" THEN "undefined"
  ELSE "[object Object]"

\* `${parameter}` of an optional number / string parameter.
ShowNum(o) == IF o = <<>> THEN "undefined" ELSE ToString(o[1])

\* A test that every returned value passes.
IsAnything(v) == TRUE

\* value === 1, and value !== 0 below
IsOne(v) == v.kind = "num" /\ v.num = 1
\* A test that only a positive number passes.
IsPositive(v) == v.kind = "num" /\ v.num > 0
IsNotZero(v) == ~(v.kind = "num" /\ v.num = 0)

\* A number parameter in a condition: absent and 0 are falsy.
Truthy(o) == o # <<>> /\ o[1] # 0

\* What a handler's code after the delegated call gives: the text for
\* createToolResponse, or the TypeError of reading a property of undefined.
Text(t) == [threw |-> FALSE, text |-> t, message |-> ""]
TypeError(property) ==
  [threw |-> TRUE, text |-> "",
   message |-> "Cannot read properties of undefined (reading '" \o property \o "')"]

\* `${rect.left}`, and `${rect.right - rect.left}`: a value that is no rectangle has no
\* such properties (undefined, and NaN for their difference).
ShowField(isKind, field) == IF isKind THEN ToString(field) ELSE "undefined"
ShowDifference(v, hi, lo) == IF v.kind = "rect" THEN ToString(hi - lo) ELSE "NaN"

MouseTools == {"mouseMove", "mouseClick", "mouseClickDrag", "mouseDown", "mouseUp",
               "mouseGetPos", "mouseGetCursor", "mouseWheel"}

\* registerMouseTools: each handler's lines between the delegated call and the return.
MouseText(tool, a, r) ==
  CASE tool = "mouseMove" ->
         Text("Mouse moved to (" \o ShowNum(a.x) \o ", " \o ShowNum(a.y)
              \o ") with result: " \o Show(r))
    [] tool = "mouseClick" ->
         Text("Mouse clicked " \o a.button \o " button " \o ToString(a.clicks)
              \o " time(s) with result: " \o Show(r))
    [] tool = "mouseClickDrag" ->
         Text("Mouse dragged from (" \o ToString(a.x1) \o ", " \o ToString(a.y1)
              \o ") to (" \o ToString(a.x2) \o ", " \o ToString(a.y2)
              \o ") with result: " \o Show(r))
    [] tool = "mouseDown" -> Text("Mouse " \o a.button \o " button pressed down")
    [] tool = "mouseUp" -> Text("Mouse " \o a.button \o " button released")
    [] tool = "mouseGetPos" ->
         IF r.kind = "undefined" THEN TypeError("x")
         ELSE Text("Mouse position: (" \o ShowField(r.kind = "point", r.x) \o ", "
                   \o ShowField(r.kind = "point", r.y) \o ")")
    [] tool = "mouseGetCursor" -> Text("Mouse cursor type: " \o Show(r))
    [] tool = "mouseWheel" ->
         Text("Mouse wheel scrolled " \o a.direction \o " " \o ToString(a.clicks)
              \o " click(s)")

KeyboardTools == {"send", "clipGet", "clipPut", "autoItSetOption", "opt", "toolTip"}

\* registerKeyboardTools
KeyboardText(tool, a, r) ==
  CASE tool = "send" ->
         Text("Sent keystrokes: \"" \o a.text \o "\" with mode " \o ToString(a.mode))
    [] tool = "clipGet" -> Text("Clipboard content: \"" \o Show(r) \o "\"")
    [] tool = "clipPut" -> Text("Text set to clipboard: \"" \o a.text \o "\"")
    [] tool \in {"autoItSetOption", "opt"} ->
         Text("AutoIt option \"" \o a.option \o "\" set to " \o ToString(a.value)
              \o " with result: " \o Show(r))
    [] tool = "toolTip" ->
         Text("Tooltip displayed: \"" \o a.text \o "\""
              \o (IF a.x # <<>> /\ a.y # <<>>
                    THEN " at position (" \o ShowNum(a.x) \o ", " \o ShowNum(a.y) \o ")"
                    ELSE ""))

ProcessTools == {"run", "runWait", "runAs", "runAsWait", "processExists", "processClose",
                 "processSetPriority", "processWait", "processWaitClose", "shutdown"}

\* registerProcessTools
ProcessText(tool, a, r) ==
  CASE tool = "run" ->
         Text("Program \"" \o a.program \o "\" started with process ID: " \o Show(r))
    [] tool = "runWait" ->
         Text("Program \"" \o a.program \o "\" completed with exit code: " \o Show(r))
    [] tool = "runAs" ->
         Text("Program \"" \o a.program \o "\" started as user \"" \o a.user
              \o "\" with process ID: " \o Show(r))
    [] tool = "runAsWait" ->
         Text("Program \"" \o a.program \o "\" completed as user \"" \o a.user
              \o "\" with exit code: " \o Show(r))
    [] tool = "processExists" ->
         Text(IF IsNotZero(r)
                THEN "Process \"" \o a.process \o "\" exists with PID: " \o Show(r)
                ELSE "Process \"" \o a.process \o "\" does not exist")
    [] tool = "processClose" ->
         Text(IF IsOne(r)
                THEN "Process \"" \o a.process \o "\" closed successfully"
                ELSE "Failed to close process \"" \o a.process \o "\"")
    [] tool = "processSetPriority" ->
         Text(IF IsOne(r)
                THEN "Priority for process \"" \o a.process \o "\" set to "
                     \o ToString(a.priority)
                ELSE "Failed to set priority for process \"" \o a.process \o "\"")
    [] tool = "processWait" ->
         Text(IF IsNotZero(r)
                THEN "Process \"" \o a.process \o "\" exists with PID: " \o Show(r)
                ELSE "Timed out waiting for process \"" \o a.process \o "\"")
    [] tool = "processWaitClose" ->
         Text(IF IsOne(r)
                THEN "Process \"" \o a.process \o "\" closed within the timeout"
                ELSE "Timed out waiting for process \"" \o a.process \o "\" to close")
    [] tool = "shutdown" ->
         Text(IF IsOne(r)
                THEN "System shutdown initiated with flags: " \o ToString(a.flags)
                ELSE "Failed to initiate system shutdown")

\* Data for the logger that carries the password as well.
RunAsCalledDataWithPassword(a) ==
  [user |-> a.user, domain |-> a.domain, password |-> a.password,
   logonFlag |-> a.logonFlag, program |-> a.program, workingDir |-> a.workingDir,
   showFlag |-> a.showFlag]

\* What the runAs and runAsWait handlers pass to log.verbose as data (lines 71, 96),
\* and what they pass to the delegated call (lines 73, 98).
RunAsCalledData(a) ==
  [user |-> a.user, domain |-> a.domain, logonFlag |-> a.logonFlag,
   program |-> a.program, workingDir |-> a.workingDir, showFlag |-> a.showFlag]
RunAsArguments(a) ==
  <<a.user, a.domain, a.password, a.logonFlag, a.program, a.workingDir, a.showFlag>>

\* The data object of log.verbose('<tool> called', data), followed for runAs and
\* runAsWait.
CalledData(tool, a) ==
  IF tool \in {"runAs", "runAsWait"} THEN <<RunAsCalledData(a)>> ELSE <<>>

\* Passwords tried.
Passwords == {"hunter2", "correct horse"}

WindowTools == {"winActivate", "winActivateByHandle", "winActive", "winClose",
                "winExists", "winGetHandle", "winGetPos", "winGetText", "winGetTitle",
                "winMove", "winSetState", "winWait", "winWaitActive", "winWaitClose"}

\* ` and resized to ${width}x${height}` when both are given and non-zero.
SizeInfo(a) ==
  IF Truthy(a.width) /\ Truthy(a.height)
    THEN " and resized to " \o ShowNum(a.width) \o "x" \o ShowNum(a.height)
    ELSE ""

\* `Left=${rect.left}, Top=${rect.top}, Width=${width}, Height=${height}`
Position(r) ==
  "Left=" \o ShowField(r.kind = "rect", r.left)
  \o ", Top=" \o ShowField(r.kind = "rect", r.top)
  \o ", Width=" \o ShowDifference(r, r.right, r.left)
  \o ", Height=" \o ShowDifference(r, r.bottom, r.top)

\* registerWindowTools
WindowText(tool, a, r) ==
  LET window == "Window \"" \o a.title \o "\"" IN
  CASE tool = "winActivate" -> Text(window \o " activated with result: " \o Show(r))
    [] tool = "winActivateByHandle" ->
         Text("Window with handle " \o ToString(a.handle) \o " activated with result: "
              \o Show(r))
    [] tool = "winActive" ->
         Text(window \o " is " \o (IF IsOne(r) THEN "active" ELSE "not active"))
    [] tool = "winClose" -> Text(window \o " closed with result: " \o Show(r))
    [] tool = "winExists" ->
         Text(window \o " " \o (IF IsOne(r) THEN "exists" ELSE "does not exist"))
    [] tool = "winGetHandle" -> Text(window \o " handle: " \o Show(r))
    [] tool = "winGetPos" ->
         IF r.kind = "undefined" THEN TypeError("right")
         ELSE Text(window \o " position: " \o Position(r))
    [] tool = "winGetText" -> Text(window \o " text: \"" \o Show(r) \o "\"")
    [] tool = "winGetTitle" -> Text(window \o " title: \"" \o Show(r) \o "\"")
    [] tool = "winMove" ->
         Text(window \o " moved to (" \o ShowNum(a.x) \o ", " \o ShowNum(a.y) \o ")"
              \o SizeInfo(a) \o " with result: " \o Show(r))
    [] tool = "winSetState" ->
         Text(window \o " state set to " \o ToString(a.flags) \o " with result: "
              \o Show(r))
    [] tool = "winWait" ->
         Text(window \o (IF IsOne(r) THEN " appeared within the timeout"
                         ELSE " did not appear within the timeout"))
    [] tool = "winWaitActive" ->
         Text(window \o (IF IsOne(r) THEN " became active within the timeout"
                         ELSE " did not become active within the timeout"))
    [] tool = "winWaitClose" ->
         Text(window \o (IF IsOne(r) THEN " closed within the timeout"
                         ELSE " did not close within the timeout"))

ControlTools == {"controlClick", "controlClickByHandle", "controlCommand",
                 "controlGetText", "controlSetText", "controlSend", "controlFocus",
                 "controlGetHandle", "controlGetPos", "controlMove", "controlShow",
                 "controlHide"}

\* registerControlTools
ControlText(tool, a, r) ==
  LET control == "control \"" \o a.control \o "\""
      handles == "control handle " \o ToString(a.controlHandle) \o " in window handle "
                 \o ToString(a.windowHandle)
  IN
  CASE tool = "controlClick" ->
         Text(IF IsOne(r)
                THEN "Clicked on " \o control \o " in window \"" \o a.title \o "\""
                ELSE "Failed to click on " \o control \o " in window \"" \o a.title \o "\"")
    [] tool = "controlClickByHandle" ->
         Text(IF IsOne(r) THEN "Clicked on " \o handles
              ELSE "Failed to click on " \o handles)
    [] tool = "controlCommand" ->
         Text("Command \"" \o a.command \o "\" sent to " \o control \o " with result: "
              \o Show(r))
    [] tool = "controlGetText" ->
         Text("Text from " \o control \o ": \"" \o Show(r) \o "\"")
    [] tool = "controlSetText" ->
         Text(IF IsOne(r)
                THEN "Text set in " \o control \o " to \"" \o a.controlText \o "\""
                ELSE "Failed to set text in " \o control)
    [] tool = "controlSend" ->
         Text(IF IsOne(r)
                THEN "Keystrokes \"" \o a.sendText \o "\" sent to " \o control
                ELSE "Failed to send keystrokes to " \o control)
    [] tool = "controlFocus" ->
         Text(IF IsOne(r) THEN "Focus set to " \o control
              ELSE "Failed to set focus to " \o control)
    [] tool = "controlGetHandle" ->
         Text("Control \"" \o a.control \o "\" handle: " \o Show(r))
    [] tool = "controlGetPos" ->
         IF r.kind = "undefined" THEN TypeError("right")
         ELSE Text("Control \"" \o a.control \o "\" position: " \o Position(r))
    [] tool = "controlMove" ->
         Text(IF IsOne(r)
                THEN "Control \"" \o a.control \o "\" moved to (" \o ShowNum(a.x) \o ", "
                     \o ShowNum(a.y) \o ")" \o SizeInfo(a)
                ELSE "Failed to move " \o control)
    [] tool = "controlShow" ->
         Text(IF IsOne(r) THEN "Control \"" \o a.control \o "\" shown"
              ELSE "Failed to show " \o control)
    [] tool = "controlHide" ->
         Text(IF IsOne(r) THEN "Control \"" \o a.control \o "\" hidden"
              ELSE "Failed to hide " \o control)

\* Every tool registerAllTools registers (tools/index.ts).
Tools == MouseTools \cup KeyboardTools \cup WindowTools \cup ProcessTools \cup ControlTools

ToolText(tool, a, r) ==
  IF tool \in MouseTools THEN MouseText(tool, a, r)
  ELSE IF tool \in KeyboardTools THEN KeyboardText(tool, a, r)
  ELSE IF tool \in ProcessTools THEN ProcessText(tool, a, r)
  ELSE IF tool \in WindowTools THEN WindowText(tool, a, r)
  ELSE ControlText(tool, a, r)

\* A thrown value: an Error with a message, a string, or another object.  message is
\* its .message property and string is String(value), both as a template shows them.
ErrorFault(m) == [kind |-> "Error", message |-> m, string |-> "Error: " \o m]
StringFault(t) == [kind |-> "string", message |-> "undefined", string |-> t]
ObjectFault == [kind |-> "object", message |-> "undefined", string |-> "[object Object]"]

\* createToolResponse(message).  isError = FALSE stands for the absent isError key.
createToolResponse(message) ==
  [content |-> <<[type |-> "text", text |-> message]>>, isError |-> FALSE]

\* An error response that leaves the isError key out.
createErrorResponseUnflagged(error) ==
  [content |-> <<[type |-> "text", text |-> "Error: " \o error.message]>>,
   isError |-> FALSE]

\* An error response that reads .message whatever it was given.
createErrorResponseMessageOnly(error) ==
  [content |-> <<[type |-> "text", text |-> "Error: " \o error.message]>>,
   isError |-> TRUE]

\* createErrorResponse(error)
createErrorResponse(error) ==
  LET errorMessage == IF error.kind = "string" THEN error.string ELSE error.message IN
  [content |-> <<[type |-> "text", text |-> "Error: " \o errorMessage]>>, isError |-> TRUE]

\* What awaiting autoIt.init() or the delegated call gives: a value or a thrown fault;
\* Pending while the promise has not settled.
Returns(v) == [threw |-> FALSE, value |-> v, fault |-> ObjectFault, settled |-> TRUE]
Throws(f) == [threw |-> TRUE, value |-> Undefined, fault |-> f, settled |-> TRUE]
Pending == [threw |-> FALSE, value |-> Undefined, fault |-> ObjectFault, settled |-> FALSE]

\* Handlers that log the delegated call's result with log.verbose before using it.
ResultLogged == {"mouseGetPos", "mouseGetCursor", "clipGet", "winGetHandle", "winGetPos",
                 "winGetText", "winGetTitle", "controlCommand", "controlGetText",
                 "controlGetHandle", "controlGetPos"}

\* A try block that goes on to the delegated call after autoIt.init() threw.
TryBlockCallsAfterInitFault(tool, a, at, outcome, out, configured) ==
  IF at = "start"
    THEN [next |-> "init", fault |-> ObjectFault, text |-> "", calls |-> <<"init">>,
          console |-> Log(out, configured, VERBOSE, tool \o " called")]
  ELSE IF at = "init"
    THEN [next |-> "call", fault |-> ObjectFault, text |-> "", calls |-> <<tool>>,
          console |-> out]
  ELSE IF outcome.threw
    THEN [next |-> "catch", fault |-> outcome.fault, text |-> "", calls |-> <<>>,
          console |-> out]
  ELSE LET body == ToolText(tool, a, outcome.value) IN
       [next |-> IF body.threw THEN "catch" ELSE "return",
        fault |-> ErrorFault(body.message), text |-> body.text, calls |-> <<>>,
        console |-> IF tool \in ResultLogged
                      THEN Log(out, configured, VERBOSE, tool \o " result")
                      ELSE out]

\* A try block that issues the delegated call before autoIt.init().
TryBlockCallsBeforeInit(tool, a, at, outcome, out, configured) ==
  IF at = "start"
    THEN [next |-> "init", fault |-> ObjectFault, text |-> "", calls |-> <<tool>>,
          console |-> Log(out, configured, VERBOSE, tool \o " called")]
  ELSE IF outcome.threw
    THEN [next |-> "catch", fault |-> outcome.fault, text |-> "", calls |-> <<>>,
          console |-> out]
  ELSE IF at = "init"
    THEN [next |-> "call", fault |-> ObjectFault, text |-> "", calls |-> <<"init">>,
          console |-> out]
  ELSE LET body == ToolText(tool, a, outcome.value) IN
       [next |-> IF body.threw THEN "catch" ELSE "return",
        fault |-> ErrorFault(body.message), text |-> body.text, calls |-> <<>>,
        console |-> IF tool \in ResultLogged
                      THEN Log(out, configured, VERBOSE, tool \o " result")
                      ELSE out]

\* The try block of a handler, from one suspension to the next:
\*   at "start": log.verbose(tool called), then autoIt.init() is called and awaited;
\*   at "init" (init settled with outcome): the delegated call of the tool's name is
\*     issued and awaited, unless init threw;
\*   at "call" (the delegated call settled with outcome): the result is logged by
\*     the handlers that do, and the text is built (which may raise a TypeError).
\* next is where the block goes on: suspended at "init" or "call", left by "return"
\* or into the "catch" with the fault; calls lists the automation calls this part
\* issued, console is out with this part's lines at the level configured now.
TryBlock(tool, a, at, outcome, out, configured) ==
  IF at = "start"
    THEN [next |-> "init", fault |-> ObjectFault, text |-> "", calls |-> <<"init">>,
          console |-> Log(out, configured, VERBOSE, tool \o " called")]
  ELSE IF outcome.threw
    THEN [next |-> "catch", fault |-> outcome.fault, text |-> "", calls |-> <<>>,
          console |-> out]
  ELSE IF at = "init"
    THEN [next |-> "call", fault |-> ObjectFault, text |-> "", calls |-> <<tool>>,
          console |-> out]
  ELSE LET body == ToolText(tool, a, outcome.value) IN
       [next |-> IF body.threw THEN "catch" ELSE "return",
        fault |-> ErrorFault(body.message), text |-> body.text, calls |-> <<>>,
        console |-> IF tool \in ResultLogged
                      THEN Log(out, configured, VERBOSE, tool \o " result")
                      ELSE out]

\* No envelope: the handler has not returned.
NoEnvelope == [content |-> <<>>, isError |-> FALSE]

\* A catch block that logs and throws the fault on.
CatchBlockRethrows(tool, fault, out, configured) ==
  [threw |-> TRUE, envelope |-> NoEnvelope,
   console |-> Log(out, configured, ERROR, tool \o " failed")]

\* The catch block: log.error, then
\* createErrorResponse(error instanceof Error ? error : String(error)).
CatchBlock(tool, fault, out, configured) ==
  [threw |-> FALSE,
   envelope |-> createErrorResponse(IF fault.kind = "Error" THEN fault
                                    ELSE StringFault(fault.string)),
   console |-> Log(out, configured, ERROR, tool \o " failed")]

\* A handler the framework is about to call: nothing issued, logged or returned.
\* at is where it stands: "start", suspended at "init" or at "call", or "done".
NewHandler(tool, a) ==
  [tool |-> tool, args |-> a, at |-> "start", init |-> Pending, call |-> Pending,
   calledData |-> CalledData(tool, a),
   response |-> [threw |-> FALSE, envelope |-> NoEnvelope, calls |-> <<>>,
                 console |-> <<>>]]

\* A tool handler, async (params) => { try {...} catch (error) {...} }, run from where
\* it stands to its next suspension or its end, outcome being what the awaited
\* promise settled with and configured the logger's level during this run.  The
\* response holds what the handler has issued and logged so far and, at the end, what
\* it returns (threw = FALSE and the envelope) or that a fault left it (threw = TRUE).
HandlerStep(h, outcome, configured) ==
  LET try == TryBlock(h.tool, h.args, h.at, outcome, h.response.console, configured)
      end == IF try.next = "catch"
               THEN CatchBlock(h.tool, try.fault, try.console, configured)
             ELSE IF try.next = "return"
               THEN [threw |-> FALSE, envelope |-> createToolResponse(try.text),
                     console |-> try.console]
             ELSE [threw |-> FALSE, envelope |-> NoEnvelope, console |-> try.console]
  IN [h EXCEPT !.at = IF try.next \in {"init", "call"} THEN try.next ELSE "done",
               !.init = IF h.at = "init" THEN outcome ELSE @,
               !.call = IF h.at = "call" THEN outcome ELSE @,
               !.response = [threw |-> end.threw, envelope |-> end.envelope,
                             calls |-> h.response.calls \o try.calls,
                             console |-> end.console]]

\* The handler run to its end with the level left alone: what it gives when init
\* settles with init and the delegated call, if issued, with call.
Handler(tool, a, init, call, configured) ==
  LET started == HandlerStep(NewHandler(tool, a), Pending, configured)
      inited == HandlerStep(started, init, configured)
      ended == IF inited.at = "call" THEN HandlerStep(inited, call, configured)
               ELSE inited
  IN ended.response

\* Parameters tried, as the handler sees them after schema validation (defaults
\* filled in): all given; the optional coordinates and sizes absent; a zero width;
\* another window title.
ArgsFull ==
  [x |-> <<10>>, y |-> <<20>>, x1 |-> 1, y1 |-> 2, x2 |-> 3, y2 |-> 4, speed |-> 10,
   button |-> "left", clicks |-> 1, direction |-> "up", text |-> "hello", mode |-> 0,
   option |-> "WinTitleMatchMode", value |-> 2, program |-> "notepad.exe",
   user |-> "admin", domain |-> "corp", password |-> "hunter2", logonFlag |-> 1,
   process |-> "notepad.exe", priority |-> 2, flags |-> 1, title |-> "Notepad",
   handle |-> 66, width |-> <<300>>, height |-> <<200>>, control |-> "Edit1",
   windowHandle |-> 66, controlHandle |-> 77, command |-> "IsVisible",
   controlText |-> "abc", sendText |-> "{ENTER}", workingDir |-> <<"C:/docs">>,
   showFlag |-> <<1>>]
ArgsMinimal ==
  [ArgsFull EXCEPT !.x = <<>>, !.y = <<>>, !.width = <<>>, !.height = <<>>,
                   !.workingDir = <<>>, !.showFlag = <<>>]
ArgsZeroWidth == [ArgsFull EXCEPT !.width = <<0>>]
ArgsOtherTitle == [ArgsFull EXCEPT !.title = "Untitled - Paint"]
ToolArgs == {ArgsFull, ArgsMinimal, ArgsZeroWidth, ArgsOtherTitle}

\* The schema of these tools requires x and y.
RequiresXY == {"mouseMove", "winMove", "controlMove"}
ValidArgs(tool) == {a \in ToolArgs : tool \in RequiresXY => (a.x # <<>> /\ a.y # <<>>)}

\* What the automation library may do on a call: return a number (0, 1, another), a
\* string, nothing, a rectangle or a point, or throw.
Faults == {ErrorFault("access denied"), StringFault("access denied"), ObjectFault}
Results == {Num(0), Num(1), Num(4242), Str("some text"), Undefined,
            Rect(10, 20, 110, 220), Point(5, 6)}
CallOutcomes == {Returns(v) : v \in Results} \cup {Throws(f) : f \in Faults}
InitOutcomes == {Returns(Undefined), Throws(ErrorFault("init failed")),
                 Throws(StringFault("init failed"))}

\* Tool handler invocations followed in one run; resource reads and prompts followed
\* in one run.
MaxCalls == 2

VARIABLES
  invocations,   \* the tool handlers called so far, in the order of the calls: for
                 \* each its tool, parameters, where it stands (at), what init and the
                 \* delegated call settled with, and its response so far
  issued         \* the calls issued on the automation library and on fs, in order

toolVars == <<invocations, issued>>

\* The lines and calls a handler's run added to those it had.
Added(before, after) == SubSeq(after, Len(before) + 1, Len(after))

\* A handler's run changes the handler, the console and the calls issued.
Run(i, h) ==
  /\ invocations' = [k \in 1..Len(invocations) \cup {i} |->
                       IF k = i THEN h ELSE invocations[k]]
  /\ LET before == IF i \in 1..Len(invocations) THEN invocations[i].response
                   ELSE NewHandler(h.tool, h.args).response
     IN /\ console' = console \o Added(before.console, h.response.console)
        /\ issued' = issued \o Added(before.calls, h.response.calls)
  /\ UNCHANGED <<argv, pc, level, transport, port, exitCode, mainServer,
                 mainTransports>>

\* The framework calls a registered tool's handler with validated parameters: the
\* handler runs up to "await autoIt.init()".  Handlers keep no state from one
\* invocation to the next; they share the logger and the automation library.
ToolCall(tool, a) ==
  /\ Len(invocations) < MaxCalls
  /\ Run(Len(invocations) + 1, HandlerStep(NewHandler(tool, a), Pending, level))

\* autoIt.init() of handler i settles and the handler runs on, up to the await of
\* its delegated call or through its catch block.
InitSettled(i, init) ==
  /\ invocations[i].at = "init"
  /\ Run(i, HandlerStep(invocations[i], init, level))

\* The delegated call of handler i settles and the handler runs to its end.
CallSettled(i, call) ==
  /\ invocations[i].at = "call"
  /\ Run(i, HandlerStep(invocations[i], call, level))

(***************************************************************************)
(* The resources (resources/index.ts): the file resource and the           *)
(* screenshot resource.  A path is a sequence of one-character strings.    *)
(***************************************************************************)
\* The characters of a sequence as one string.
RECURSIVE Join(_)
Join(chars) == IF chars = <<>> THEN "" ELSE chars[1] \o Join(Tail(chars))

\* segments.join(separator)
RECURSIVE JoinWith(_, _)
JoinWith(segments, separator) ==
  IF segments = <<>> THEN <<>>
  ELSE IF Len(segments) = 1 THEN segments[1]
  ELSE segments[1] \o separator \o JoinWith(Tail(segments), separator)

\* String.prototype.toLowerCase over the letters A-Z
UpperCase == <<"A", "B", "C", "D", "E", "F", "G", "H", "I", "J", "K", "L", "M", "N", "O", "P", "Q", "R", "S", "T", "U", "V", "W", "X", "Y", "Z">>
LowerCase == <<"a", "b", "c", "d", "e", "f", "g", "h", "i", "j", "k", "l", "m", "n", "o", "p", "q", "r", "s", "t", "u", "v", "w", "x", "y", "z">>
ToLowerCase(chars) ==
  [k \in 1..Len(chars) |->
     IF \E i \in 1..Len(UpperCase) : UpperCase[i] = chars[k]
       THEN LowerCase[CHOOSE i \in 1..Len(UpperCase) : UpperCase[i] = chars[k]]
       ELSE chars[k]]

\* path.extname(p) on Windows, for a path that does not end in a separator and has
\* one after its drive: from the last dot of the last segment to the end; empty when
\* that segment has no dot, or none but its first character, or is "..".
Extname(p) ==
  LET seps == {k \in 1..Len(p) : p[k] \in {"/", "\\"}}
      start == IF seps = {} THEN 1 ELSE (CHOOSE k \in seps : \A j \in seps : j <= k) + 1
      dots == {k \in start..Len(p) : p[k] = "."}
      last == CHOOSE k \in dots : \A j \in dots : j <= k
  IN IF dots = {} \/ last = start \/ SubSeq(p, start, Len(p)) = <<".", ".">>
       THEN <<>> ELSE SubSeq(p, last, Len(p))

\* The extensions read as text (lines 70-74).
TextExtensions ==
  {".txt", ".md", ".js", ".ts", ".html", ".css", ".json", ".xml", ".csv",
   ".log", ".ini", ".cfg", ".conf", ".py", ".c", ".cpp", ".h", ".java", ".sh",
   ".bat", ".ps1"}

\* A lookup that knows no extension.
getMimeTypeUnknown(extension) == "application/octet-stream"

\* getMimeType(extension)
getMimeType(extension) ==
  CASE
       extension = ".txt" -> "text/plain"
    [] extension = ".html" -> "text/html"
    [] extension = ".css" -> "text/css"
    [] extension = ".js" -> "application/javascript"
    [] extension = ".ts" -> "application/typescript"
    [] extension = ".json" -> "application/json"
    [] extension = ".xml" -> "application/xml"
    [] extension = ".md" -> "text/markdown"
    [] extension = ".csv" -> "text/csv"
    [] extension = ".png" -> "image/png"
    [] extension = ".jpg" -> "image/jpeg"
    [] extension = ".jpeg" -> "image/jpeg"
    [] extension = ".gif" -> "image/gif"
    [] extension = ".svg" -> "image/svg+xml"
    [] extension = ".pdf" -> "application/pdf"
    [] extension = ".doc" -> "application/msword"
    [] extension = ".docx" -> "application/vnd.openxmlformats-officedocument.wordprocessingml.document"
    [] extension = ".xls" -> "application/vnd.ms-excel"
    [] extension = ".xlsx" -> "application/vnd.openxmlformats-officedocument.spreadsheetml.sheet"
    [] extension = ".ppt" -> "application/vnd.ms-powerpoint"
    [] extension = ".pptx" -> "application/vnd.openxmlformats-officedocument.presentationml.presentation"
    [] extension = ".zip" -> "application/zip"
    [] extension = ".rar" -> "application/x-rar-compressed"
    [] extension = ".7z" -> "application/x-7z-compressed"
    [] extension = ".tar" -> "application/x-tar"
    [] extension = ".gz" -> "application/gzip"
    [] OTHER -> "application/octet-stream"

\* buffer.toString('base64')
Base64Alphabet ==
  <<"A", "B", "C", "D", "E", "F", "G", "H", "I", "J", "K", "L",
    "M", "N", "O", "P", "Q", "R", "S", "T", "U", "V", "W", "X", "Y", "Z", "a", "b", "c", "d", "e", "f",
    "g", "h", "i", "j", "k", "l", "m", "n", "o", "p", "q", "r", "s", "t", "u", "v",
    "w", "x", "y", "z", "0", "1", "2", "3",
    "4", "5", "6", "7", "8", "9", "+", "/">>
RECURSIVE Base64(_)
Base64(bytes) ==
  LET A(n) == Base64Alphabet[n + 1] IN
  IF bytes = <<>> THEN ""
  ELSE IF Len(bytes) = 1
    THEN A(bytes[1] \div 4) \o A((bytes[1] % 4) * 16) \o "=="
  ELSE IF Len(bytes) = 2
    THEN A(bytes[1] \div 4) \o A((bytes[1] % 4) * 16 + bytes[2] \div 16)
           \o A((bytes[2] % 16) * 4) \o "="
  ELSE A(bytes[1] \div 4) \o A((bytes[1] % 4) * 16 + bytes[2] \div 16)
         \o A((bytes[2] % 16) * 4 + bytes[3] \div 64) \o A(bytes[3] % 64)
         \o Base64(SubSeq(bytes, 4, Len(bytes)))

\* buffer.toString('utf-8').  A character is written as itself when it is a printable
\* ASCII character other than the grave accent, a tab, a line feed, a form feed or a
\* carriage return, and as U+ and its code point in hexadecimal otherwise (U+0000,
\* U+0060, U+00E9).  Bytes that are no well-formed sequence decode to the replacement
\* character U+FFFD, one for each maximal ill-formed part.
Ascii ==
  <<" ", "!", "\"", "#", "$", "%", "&", "'", "(", ")", "*", "+", ",", "-", ".", "/", "0", "1", "2", "3", "4", "5", "6", "7", "8", "9", ":", ";", "<", "=", ">", "?", "@", "A", "B", "C", "D", "E", "F", "G", "H", "I", "J", "K", "L", "M", "N", "O", "P", "Q", "R", "S", "T", "U", "V", "W", "X", "Y", "Z", "[", "\\", "]", "^", "_", "U+0060", "a", "b", "c", "d", "e", "f", "g", "h", "i", "j", "k", "l", "m", "n", "o", "p", "q", "r", "s", "t", "u", "v", "w", "x", "y", "z", "{", "|", "}", "~">>
HexDigits == <<"0", "1", "2", "3", "4", "5", "6", "7", "8", "9", "A", "B", "C", "D", "E", "F">>
RECURSIVE Hex(_, _)
Hex(n, width) ==
  IF width = 0 /\ n = 0 THEN ""
  ELSE Hex(n \div 16, IF width = 0 THEN 0 ELSE width - 1) \o HexDigits[(n % 16) + 1]
CodePoint(n) ==
  IF n = 9 THEN "\t" ELSE IF n = 10 THEN "\n" ELSE IF n = 12 THEN "\f"
  ELSE IF n = 13 THEN "\r"
  ELSE IF n \in 32..126 /\ n # 96 THEN Ascii[n - 31]
  ELSE "U+" \o Hex(n, 4)
IsContinuation(bytes, k, low, high) == Len(bytes) >= k /\ bytes[k] \in low..high
RECURSIVE Utf8(_)
Utf8(bytes) ==
  IF bytes = <<>> THEN ""
  ELSE
    LET b == bytes[1]
        Rest(n) == SubSeq(bytes, n + 1, Len(bytes))
        low == IF b = 224 THEN 160 ELSE IF b = 240 THEN 144 ELSE 128
        high == IF b = 237 THEN 159 ELSE IF b = 244 THEN 143 ELSE 191
    IN
    IF b < 128 THEN CodePoint(b) \o Utf8(Rest(1))
    ELSE IF b \in 194..223
      THEN IF IsContinuation(bytes, 2, 128, 191)
             THEN CodePoint((b - 192) * 64 + (bytes[2] - 128)) \o Utf8(Rest(2))
             ELSE "U+FFFD" \o Utf8(Rest(1))
    ELSE IF b \in 224..239
      THEN IF ~IsContinuation(bytes, 2, low, high) THEN "U+FFFD" \o Utf8(Rest(1))
           ELSE IF ~IsContinuation(bytes, 3, 128, 191) THEN "U+FFFD" \o Utf8(Rest(2))
           ELSE CodePoint((b - 224) * 4096 + (bytes[2] - 128) * 64 + (bytes[3] - 128))
                  \o Utf8(Rest(3))
    ELSE IF b \in 240..244
      THEN IF ~IsContinuation(bytes, 2, low, high) THEN "U+FFFD" \o Utf8(Rest(1))
           ELSE IF ~IsContinuation(bytes, 3, 128, 191) THEN "U+FFFD" \o Utf8(Rest(2))
           ELSE IF ~IsContinuation(bytes, 4, 128, 191) THEN "U+FFFD" \o Utf8(Rest(3))
           ELSE CodePoint((b - 240) * 262144 + (bytes[2] - 128) * 4096
                            + (bytes[3] - 128) * 64 + (bytes[4] - 128))
                  \o Utf8(Rest(4))
    ELSE "U+FFFD" \o Utf8(Rest(1))

\* The file system read: what fs.stat gives for a path, with a directory's entries
\* (name, and whether fs.stat of the entry fails) and a file's bytes.
Missing == [kind |-> "missing", entries |-> <<>>, bytes |-> <<>>]
Directory(entries) == [kind |-> "directory", entries |-> entries, bytes |-> <<>>]
File(bytes) == [kind |-> "file", entries |-> <<>>, bytes |-> bytes]
Stat(p) ==
  CASE p = "C:/docs" -> Directory(<<[name |-> "notes.TXT", gone |-> FALSE],
                                    [name |-> "pic.png", gone |-> FALSE]>>)
    [] p = "C:/empty" -> Directory(<<>>)
    [] p = "C:/stale.d" -> Directory(<<[name |-> "lock", gone |-> TRUE]>>)
    [] p = "C:/docs/notes.TXT" -> File(<<72, 105, 10>>)
    [] p = "C:/docs/page.html" -> File(<<60, 112, 62>>)
    [] p = "C:/docs/run.ps1" -> File(<<108, 115>>)
    [] p = "C:/docs/data.json" -> File(<<123, 125>>)
    [] p = "C:/docs/pic.png" -> File(<<137, 80, 78, 71>>)
    [] p = "C:/docs/archive.xyz" -> File(<<97, 98>>)
    [] p = "C:/docs/README" -> File(<<72, 105>>)
    [] p = "C:/docs/.gitignore" -> File(<<97>>)
    [] p = "C:/docs/a.tar.gz" -> File(<<31, 139>>)
    [] p = "C:/docs/bad.txt" -> File(<<72, 255>>)
    [] OTHER -> Missing

\* params.path as the framework gives it: one string, or the segments of the path.
PathParams ==
  {<<<<"C", ":", "/", "d", "o", "c", "s">>>>, <<<<"C", ":", "/", "e", "m", "p", "t", "y">>>>, <<<<"C", ":", "/", "s", "t", "a", "l", "e", ".", "d">>>>, <<<<"C", ":", "/", "d", "o", "c", "s", "/", "n", "o", "p", "e", ".", "t", "x", "t">>>>,
   <<<<"C", ":", "/", "d", "o", "c", "s">>, <<"n", "o", "t", "e", "s", ".", "T", "X", "T">>>>, <<<<"C", ":", "/", "d", "o", "c", "s">>, <<"p", "i", "c", ".", "p", "n", "g">>>>}
    \cup {<<<<"C", ":", "/", "d", "o", "c", "s">> \o <<"/">> \o name>> :
            name \in {<<"n", "o", "t", "e", "s", ".", "T", "X", "T">>, <<"p", "a", "g", "e", ".", "h", "t", "m", "l">>, <<"r", "u", "n", ".", "p", "s", "1">>, <<"d", "a", "t", "a", ".", "j", "s", "o", "n">>, <<"p", "i", "c", ".", "p", "n", "g">>,
                      <<"a", "r", "c", "h", "i", "v", "e", ".", "x", "y", "z">>, <<"R", "E", "A", "D", "M", "E">>, <<".", "g", "i", "t", "i", "g", "n", "o", "r", "e">>,
                      <<"a", ".", "t", "a", "r", ".", "g", "z">>, <<"b", "a", "d", ".", "t", "x", "t">>}}

\* A read callback's response so far: the fs and automation calls it issued and the
\* lines it logged; at its end the contents it returns, or the fault it raises to the
\* framework (threw, with the message).
NoResponse ==
  [threw |-> FALSE, message |-> "", contents |-> <<>>, calls |-> <<>>, console |-> <<>>]
TextItem(href, text, mimeType) ==
  [uri |-> href, key |-> "text", data |-> text, mimeType |-> mimeType]
BlobItem(href, blob, mimeType) ==
  [uri |-> href, key |-> "blob", data |-> blob, mimeType |-> mimeType]

\* A read the framework is about to start.  at is where the callback stands: "start",
\* the await it is suspended at, or "done"; removed says the path was removed while
\* the callback was suspended.
NewRead(resource, href, pathParam, window) ==
  [resource |-> resource, href |-> href, path |-> pathParam, window |-> window,
   at |-> "start", init |-> Pending, exists |-> Pending, activate |-> Pending,
   removed |-> FALSE, response |-> NoResponse]

\* The callback goes on: it issues calls, suspended at the await named.
Awaits(r, at, calls, out) ==
  [r EXCEPT !.at = at, !.response.calls = @ \o calls, !.response.console = out]
\* The callback returns the contents.
Contents(r, items, out) ==
  [r EXCEPT !.at = "done", !.response.contents = items, !.response.console = out]
\* The callback raises the message.
Raised(r, message, out) ==
  [r EXCEPT !.at = "done", !.response.threw = TRUE, !.response.message = message,
            !.response.console = out]

\* The file resource's read callback (lines 33-98), run from where it stands to its
\* next suspension or its end.  r.href is uri.href and r.path holds the string, or the
\* strings of the array, in params.path; removed says that the path has been removed
\* since the callback was suspended; configured is the logger's level during this
\* run.  The callback is suspended at fs.stat (line 40), at fs.readdir (44), at the
\* Promise.all of the entries' fs.stat (45-55) and at fs.readFile (66).
FileResource(r, removed, configured) ==
  LET filePath == JoinWith(r.path, <<"/">>)
      name == Join(filePath)
      out == r.response.console
      stats == Stat(name)
      extension == Join(ToLowerCase(Extname(filePath)))
      Fail(call, path) ==
        Raised([r EXCEPT !.removed = removed],
               "Failed to read file: ENOENT: no such file or directory, " \o call
                 \o " '" \o path \o "'",
               Log(out, configured, ERROR, "Error reading file resource"))
  IN
  IF r.at = "start"
    THEN Awaits(r, "stat", <<"stat">>,
                Log(out, configured, VERBOSE, "Reading file resource"))
  ELSE IF r.at = "stat"
    THEN IF stats.kind = "missing" THEN Fail("stat", name)
         ELSE IF stats.kind = "directory" THEN Awaits(r, "readdir", <<"readdir">>, out)
         ELSE Awaits(r, "readFile", <<"readFile">>, out)
  ELSE IF r.at = "readdir"
    THEN IF removed THEN Fail("scandir", name)
         ELSE Awaits(r, "entries", [i \in 1..Len(stats.entries) |-> "stat"], out)
  ELSE IF r.at = "entries"
    THEN IF \E i \in 1..Len(stats.entries) : stats.entries[i].gone
           THEN LET i == CHOOSE k \in 1..Len(stats.entries) : stats.entries[k].gone IN
                Fail("stat", name \o "/" \o stats.entries[i].name)
           ELSE Contents(r, <<TextItem(r.href,
                                       "Directory: " \o name \o "\n"
                                         \o Join(JoinWith([i \in 1..Len(stats.entries) |->
                                                             <<stats.entries[i].name>>],
                                                          <<"\n">>)),
                                       "text/plain")>>, out)
  ELSE IF removed THEN Fail("open", name)
  ELSE IF extension \in TextExtensions
    THEN Contents(r, <<TextItem(r.href, Utf8(stats.bytes), getMimeType(extension))>>, out)
  ELSE Contents(r, <<BlobItem(r.href, Base64(stats.bytes), getMimeType(extension))>>, out)

\* `${value}` is falsy: 0, the empty string, undefined.
Falsy(v) ==
  \/ v.kind = "num" /\ v.num = 0
  \/ v.kind = "str" /\ v.str = ""
  \/ v.kind = "undefined"

\* A screenshot read callback that activates the window without asking whether it
\* exists.
ScreenshotResourceActivatesUnseen(r, outcome, configured) ==
  LET named == r.window # <<>> /\ r.window[1] # ""
      out == r.response.console
      Fail(fault) ==
        Raised(r, "Failed to take screenshot: "
                    \o (IF fault.kind = "Error" THEN fault.message ELSE fault.string),
               Log(out, configured, ERROR, "Error taking screenshot"))
      placeholder == TextItem(r.href, "Screenshot of "
                                        \o (IF named THEN r.window[1] ELSE "full screen")
                                        \o " would be captured here", "text/plain")
  IN
  IF r.at = "start" THEN Awaits(r, "init", <<"init">>, out)
  ELSE IF r.at = "timer" THEN Contents(r, <<placeholder>>, out)
  ELSE IF outcome.threw THEN Fail(outcome.fault)
  ELSE IF r.at = "init"
    THEN LET taking == Log(out, configured, VERBOSE, "Taking screenshot") IN
         IF named THEN Awaits(r, "winActivate", <<"winActivate">>, taking)
         ELSE Contents(r, <<placeholder>>, taking)
  ELSE Awaits(r, "timer", <<>>, out)

\* The screenshot resource's read callback (lines 113-160), run from where it stands
\* to its next suspension or its end.  r.href is uri.href, r.window is params.window
\* (<<>> when the URI has none); outcome is what the awaited promise settled with and
\* configured the logger's level during this run.  The callback is suspended at
\* autoIt.init() (line 115), at autoIt.winExists (122), at autoIt.winActivate (124) and
\* at the timer of 500 ms (126).
ScreenshotResource(r, outcome, configured) ==
  LET named == r.window # <<>> /\ r.window[1] # ""
      out == r.response.console
      Fail(fault) ==
        Raised(r, "Failed to take screenshot: "
                    \o (IF fault.kind = "Error" THEN fault.message ELSE fault.string),
               Log(out, configured, ERROR, "Error taking screenshot"))
      placeholder == TextItem(r.href, "Screenshot of "
                                        \o (IF named THEN r.window[1] ELSE "full screen")
                                        \o " would be captured here", "text/plain")
  IN
  IF r.at = "start" THEN Awaits(r, "init", <<"init">>, out)
  ELSE IF r.at = "timer" THEN Contents(r, <<placeholder>>, out)
  ELSE IF outcome.threw THEN Fail(outcome.fault)
  ELSE IF r.at = "init"
    THEN LET taking == Log(out, configured, VERBOSE, "Taking screenshot") IN
         IF named THEN Awaits(r, "winExists", <<"winExists">>, taking)
         ELSE Contents(r, <<placeholder>>, taking)
  ELSE IF r.at = "winExists"
    THEN IF Falsy(outcome.value)
           THEN Fail(ErrorFault("Window \"" \o r.window[1] \o "\" not found"))
           ELSE Awaits(r, "winActivate", <<"winActivate">>, out)
  ELSE Awaits(r, "timer", <<>>, out)

\* The promise a suspended screenshot callback awaits settled with outcome.
Settled(r, outcome) ==
  [r EXCEPT !.init = IF r.at = "init" THEN outcome ELSE @,
            !.exists = IF r.at = "winExists" THEN outcome ELSE @,
            !.activate = IF r.at = "winActivate" THEN outcome ELSE @]

\* uri.href and params.window tried: no window, the empty string, two names.
Hrefs == {"file:///C:/docs", "screenshot://Notepad"}
Windows == {<<>>, <<"">>, <<"Notepad">>, <<"Untitled - Paint">>}
ExistsOutcomes ==
  {Returns(v) : v \in {Num(0), Num(1), Num(4242), Str(""), Undefined}}
    \cup {Throws(ErrorFault("access denied"))}
ActivateOutcomes == {Returns(Num(1)), Returns(Num(0)), Throws(StringFault("access denied"))}

VARIABLES
  reads,         \* the resource reads started so far, in the order of the calls: for
                 \* each the resource, its parameters, where its callback stands,
                 \* what the awaited calls settled with, and its response so far
  prompts        \* the prompts got so far: the prompt, its arguments and the result

resourceVars == <<reads, prompts>>

\* A read callback's run changes the read, the console and the calls issued.
RunRead(i, r) ==
  /\ reads' = [k \in 1..Len(reads) \cup {i} |-> IF k = i THEN r ELSE reads[k]]
  /\ LET before == IF i \in 1..Len(reads) THEN reads[i].response ELSE NoResponse
     IN /\ console' = console \o Added(before.console, r.response.console)
        /\ issued' = issued \o Added(before.calls, r.response.calls)
  /\ UNCHANGED <<argv, pc, level, transport, port, exitCode, mainServer,
                 mainTransports, invocations, prompts>>

\* The framework calls the file resource's read callback, which runs up to
\* "await fs.stat(filePath)".
ReadFile(href, pathParam) ==
  /\ Len(reads) + Len(prompts) < MaxCalls
  /\ RunRead(Len(reads) + 1,
             FileResource(NewRead("file", href, pathParam, <<>>), FALSE, level))

\* A file system call that read i awaits settles, and the callback runs on.  removed:
\* the path was removed while the callback was suspended (an fs.stat in flight when
\* the callback starts sees the path as it is).
FileSettled(i, removed) ==
  /\ reads[i].resource = "file"
  /\ reads[i].at \in {"stat", "readdir", "entries", "readFile"}
  /\ reads[i].at \in {"stat", "entries"} => ~removed
  /\ RunRead(i, FileResource(reads[i], removed, level))

\* The framework calls the screenshot resource's read callback, which runs up to
\* "await autoIt.init()".
ReadScreenshot(href, window) ==
  /\ Len(reads) + Len(prompts) < MaxCalls
  /\ RunRead(Len(reads) + 1,
             ScreenshotResource(NewRead("screenshot", href, <<>>, window), Pending,
                                level))

\* The automation call that read i awaits settles with outcome, and the callback
\* runs on.
ScreenshotSettled(i, outcome) ==
  /\ reads[i].resource = "screenshot"
  /\ reads[i].at \in {"init", "winExists", "winActivate"}
  /\ RunRead(i, ScreenshotResource(Settled(reads[i], outcome), outcome, level))

\* The 500 ms timer of read i fires, and the callback returns.
TimerFired(i) ==
  /\ reads[i].resource = "screenshot"
  /\ reads[i].at = "timer"
  /\ RunRead(i, ScreenshotResource(reads[i], Pending, level))

(***************************************************************************)
(* The prompts (prompts/index.ts).  An argument is a string; the optional  *)
(* windowTitle of takeScreenshot is <<>> when absent and <<title>> when    *)
(* given.                                                                  *)
(***************************************************************************)
PromptNames == {"findWindow", "windowInfo", "fillForm", "submitForm", "automateTask",
                "monitorWindow", "takeScreenshot"}

\* What a prompt callback returns: a description and one user message with the text.
PromptResult(description, text) ==
  [description |-> description,
   messages |-> <<[role |-> "user", content |-> [type |-> "text", text |-> text]]>>]

\* `${windowTitle}`
TitleText(windowTitle) == IF windowTitle = <<>> THEN "undefined" ELSE windowTitle[1]

\* The callbacks of the seven prompts (lines 236-267, 276-291, 306-321, 331-346,
\* 361-376, 386-401, 411-437), after their log.verbose call.
Prompt(name, a) ==
  LET title == TitleText(a.windowTitle)
      actionDescription == IF a.action = "activate" THEN "activate (bring to front)"
                           ELSE a.action
      help == " Can you help me with the steps to do this using AutoIt functions?"
      script == " Can you help me create an automation script using AutoIt functions to accomplish this?"
  IN
  CASE name = "findWindow" ->
         PromptResult("Find a window with title \"" \o title \o "\" and "
                        \o actionDescription \o " it",
                      "I need to find a window with the title \"" \o title \o "\" and "
                        \o actionDescription \o " it." \o help)
    [] name = "windowInfo" ->
         PromptResult("Get information about a window with title \"" \o title \o "\"",
                      "I need to get information about a window with the title \""
                        \o title \o "\". Can you help me retrieve details like its position, size, state, and text content using AutoIt functions?")
    [] name = "fillForm" ->
         PromptResult("Fill out a form in window \"" \o title \o "\"",
                      "I need to fill out a form in a window with the title \"" \o title
                        \o "\". The form has the following fields that need to be filled:\n\n"
                        \o a.formFields
                        \o "\n\nCan you help me automate filling out this form using AutoIt functions?")
    [] name = "submitForm" ->
         PromptResult("Submit a form in window \"" \o title \o "\"",
                      "I need to submit a form in a window with the title \"" \o title
                        \o "\" by clicking the \"" \o a.submitButtonText
                        \o "\" button. Can you help me automate this using AutoIt functions?")
    [] name = "automateTask" ->
         PromptResult("Automate a repetitive task: " \o a.taskDescription,
                      "I need to automate the following repetitive task "
                        \o a.repetitions \o " times:\n\n" \o a.taskDescription
                        \o "\n\nCan you help me create an automation script using AutoIt functions to accomplish this?")
    [] name = "monitorWindow" ->
         PromptResult("Monitor window \"" \o title \o "\" for condition: " \o a.condition,
                      "I need to monitor a window with the title \"" \o title
                        \o "\" and wait until the following condition is met: "
                        \o a.condition \o "." \o script)
    [] name = "takeScreenshot" ->
         PromptResult("Take a screenshot of "
                        \o (IF a.target = "window" THEN "window \"" \o title \o "\""
                            ELSE a.target),
                      (IF a.target = "fullscreen"
                         THEN "I need to take a screenshot of the entire screen."
                       ELSE IF a.target = "window" /\ a.windowTitle \notin {<<>>, <<"">>}
                         THEN "I need to take a screenshot of a window with the title \""
                                \o title \o "\"."
                       ELSE IF a.target = "region"
                         THEN "I need to take a screenshot of a specific region of the screen."
                       ELSE "I need to take a screenshot.")
                        \o " Can you help me do this using AutoIt functions?")

\* Arguments tried, as the callback sees them after schema validation.
PromptArgs ==
  [windowTitle : {<<>>, <<"">>, <<"Notepad">>},
   action : {"activate", "close", "minimize", "maximize"},
   target : {"fullscreen", "window", "region"},
   formFields : {"Name: Ada"}, submitButtonText : {"OK"},
   taskDescription : {"rename files"}, repetitions : {"3"},
   condition : {"appears"}]
\* The schemas of these prompts require a windowTitle; that of takeScreenshot has an
\* optional one and that of automateTask has none (the callback reads only the
\* arguments of its own schema).
RequiresWindowTitle == {"findWindow", "windowInfo", "fillForm", "submitForm",
                        "monitorWindow"}
ValidPromptArgs(name) ==
  {a \in PromptArgs : name \in RequiresWindowTitle => a.windowTitle # <<>>}

\* The framework calls a registered prompt's callback with validated arguments: the
\* callback logs at verbose and returns; it awaits nothing.
GetPrompt(name, a) ==
  /\ Len(reads) + Len(prompts) < MaxCalls
  /\ prompts' = Append(prompts, [name |-> name, args |-> a, result |-> Prompt(name, a)])
  /\ console' = Log(console, level, VERBOSE, name \o " prompt called")
  /\ UNCHANGED <<argv, pc, level, transport, port, exitCode, mainServer,
                 mainTransports, invocations, issued, reads>>

vars == <<transportVars, startupVars, toolVars, resourceVars>>

\* The socket server: setupServer with a websocket configuration, no command line.
InitTransport ==
  /\ config = [transport |-> "websocket", port |-> <<>>]
  /\ InitTransportVars
  /\ argv = <<>>
  /\ InitStartupVars
  /\ invocations = <<>>
  /\ issued = <<>>
  /\ reads = <<>>
  /\ prompts = <<>>

\* log.setLevel(l) called while a handler, a read or a startup is suspended, within
\* the bound on such calls.  The handlers and the resource callbacks log at verbose
\* and at error alone, so that every level above verbose is the same to them: one of
\* these is tried with them.
MaxLevelChanges == 1
HandlerLevels == {VERBOSE, ERROR}
LevelChange(l) ==
  /\ steps < MaxLevelChanges
  /\ steps' = steps + 1
  /\ SetLevel(l)
  /\ UNCHANGED <<config, setup, mcpServers, stdioTransports, httpServer, listenPort,
                 ws, readyState, connectedTo, events, writes, sends, listeners,
                 serverConsole>>

\* One more socket event, peer close or adapter call, within the bound of the run.
Step == steps < MaxSteps /\ steps' = steps + 1

NextTransport ==
  \/ SetupServer /\ UNCHANGED <<steps, startupVars, toolVars, resourceVars>>
  \/ \E connectStarts \in BOOLEAN :
       Connection(connectStarts) /\ UNCHANGED <<steps, startupVars, toolVars, resourceVars>>
  \/ \E c \in Conns, data \in Frames, t \in BOOLEAN : OnMessage(c, data, t) /\ Step /\ UNCHANGED <<startupVars, toolVars, resourceVars>>
  \/ \E c \in Conns, closing \in BOOLEAN : OnError(c, closing) /\ Step /\ UNCHANGED <<startupVars, toolVars, resourceVars>>
  \/ \E c \in Conns : OnClose(c) /\ Step /\ UNCHANGED <<startupVars, toolVars, resourceVars>>
  \/ \E c \in Conns : PeerCloses(c) /\ Step /\ UNCHANGED <<startupVars, toolVars, resourceVars>>
  \/ \E c \in Conns, m \in Messages : Send(c, m) /\ Step /\ UNCHANGED <<startupVars, toolVars, resourceVars>>
  \/ \E c \in Conns : \E w \in 1..Len(writes[c]), e \in BOOLEAN : WriteDone(c, w, e) /\ Step /\ UNCHANGED <<startupVars, toolVars, resourceVars>>
  \/ \E c \in Conns : Close(c) /\ Step /\ UNCHANGED <<startupVars, toolVars, resourceVars>>
  \/ \E c \in Conns : Start(c) /\ Step /\ UNCHANGED <<startupVars, toolVars, resourceVars>>

SpecTransport == InitTransport /\ [][NextTransport]_vars

\* Startup: every command line for index.ts, every ServerConfig for setupServer.
InitStartup ==
  /\ argv \in Argvs
  /\ InitStartupVars
  /\ config \in [transport : TransportKinds, port : Ports]
  /\ InitTransportVars
  /\ invocations = <<>>
  /\ issued = <<>>
  /\ reads = <<>>
  /\ prompts = <<>>

NextStartup ==
  \/ Load /\ UNCHANGED <<transportVars, toolVars, resourceVars>>
  \/ StartServer /\ UNCHANGED <<transportVars, toolVars, resourceVars>>
  \/ \E t \in BOOLEAN :
       StartServerConnected(t) /\ UNCHANGED <<transportVars, toolVars, resourceVars>>
  \/ \E l \in LogLevels :
       /\ pc = "connecting" \/ setup = "connecting"
       /\ LevelChange(l) /\ UNCHANGED <<toolVars, resourceVars>>
  \/ SetupServer /\ UNCHANGED <<steps, startupVars, toolVars, resourceVars>>
  \/ \E t \in BOOLEAN :
       SetupServerConnected(t) /\ UNCHANGED <<steps, startupVars, toolVars, resourceVars>>
  \/ \E connectStarts \in BOOLEAN :
       Connection(connectStarts) /\ UNCHANGED <<steps, startupVars, toolVars, resourceVars>>

SpecStartup == InitStartup /\ [][NextStartup]_vars

\* The tools: the process has loaded (the log level is the one the command line set)
\* and the framework invokes handlers.
InitTools ==
  /\ argv \in {<<>>, <<OptVerbose>>}
  /\ pc = "main"
  /\ level = IF argv = <<>> THEN INFO ELSE VERBOSE
  /\ transport = Stdio
  /\ port = <<DefaultPort>>
  /\ console = <<>>
  /\ exitCode = <<>>
  /\ mainServer = [constructed |-> FALSE, registered |-> FALSE, connected |-> 0]
  /\ mainTransports = [stdio |-> 0, websocket |-> 0]
  /\ config = [transport |-> "stdio", port |-> <<>>]
  /\ InitTransportVars
  /\ invocations = <<>>
  /\ issued = <<>>
  /\ reads = <<>>
  /\ prompts = <<>>

\* A handler called alone is followed over every tool, parameter set and outcome;
\* handlers called while others run are followed among these tools, those called
\* after the first with these outcomes.
OverlapTools == {"mouseGetPos", "winExists"}
OverlapInit == {Returns(Undefined)}
OverlapCall == {Returns(Num(1)), Throws(ErrorFault("access denied"))}

NextTools ==
  \/ \E tool \in Tools :
       \E a \in ValidArgs(tool) :
         /\ invocations # <<>> =>
              /\ tool \in OverlapTools /\ a = ArgsFull
              /\ \A i \in 1..Len(invocations) : invocations[i].tool \in OverlapTools
         /\ ToolCall(tool, a) /\ UNCHANGED <<transportVars, resourceVars>>
  \/ \E i \in 1..Len(invocations), init \in InitOutcomes :
       /\ i > 1 => init \in OverlapInit
       /\ InitSettled(i, init) /\ UNCHANGED <<transportVars, resourceVars>>
  \/ \E i \in 1..Len(invocations), call \in CallOutcomes :
       /\ i > 1 => call \in OverlapCall
       /\ CallSettled(i, call) /\ UNCHANGED <<transportVars, resourceVars>>
  \/ \E l \in HandlerLevels :
       /\ \E i \in 1..Len(invocations) : invocations[i].at # "done"
       /\ LevelChange(l) /\ UNCHANGED <<toolVars, resourceVars>>

SpecTools == InitTools /\ [][NextTools]_vars

\* The resources: the process has loaded and the framework reads a resource.
InitResources == InitTools

\* A read or a prompt called alone is followed over every input and outcome; reads
\* and prompts called while others run are followed among these, those started after
\* the first with these outcomes.
OverlapRead(r) ==
  \/ /\ r.resource = "screenshot"
     /\ r.href = "screenshot://Notepad" /\ r.window = <<"Notepad">>
  \/ /\ r.resource = "file"
     /\ r.href = "file:///C:/docs"
     /\ r.path = <<<<"C", ":", "/", "d", "o", "c", "s">>,
                   <<"n", "o", "t", "e", "s", ".", "T", "X", "T">>>>
OverlapPrompt(p) ==
  /\ p.name = "takeScreenshot"
  /\ p.args.target = "fullscreen" /\ p.args.windowTitle = <<>>
  /\ p.args.action = "activate"
OverlapOutcomes == {Returns(Num(1))}
Alone == reads = <<>> /\ prompts = <<>>
Overlap ==
  /\ \A i \in 1..Len(reads) : OverlapRead(reads[i])
  /\ \A i \in 1..Len(prompts) : OverlapPrompt(prompts[i])

NextResources ==
  \/ \E href \in Hrefs, pathParam \in PathParams :
       /\ Len(reads) + Len(prompts) < MaxCalls
       /\ Alone \/ (OverlapRead(NewRead("file", href, pathParam, <<>>)) /\ Overlap)
       /\ ReadFile(href, pathParam) /\ UNCHANGED transportVars
  \/ \E i \in 1..Len(reads), removed \in BOOLEAN :
       /\ i > 1 => ~removed
       /\ FileSettled(i, removed) /\ UNCHANGED transportVars
  \/ \E href \in Hrefs, window \in Windows :
       /\ Len(reads) + Len(prompts) < MaxCalls
       /\ Alone \/ (OverlapRead(NewRead("screenshot", href, <<>>, window)) /\ Overlap)
       /\ ReadScreenshot(href, window) /\ UNCHANGED transportVars
  \/ \E i \in 1..Len(reads) :
       \E outcome \in IF i > 1 THEN OverlapOutcomes
                      ELSE IF reads[i].at = "init" THEN InitOutcomes
                      ELSE IF reads[i].at = "winExists" THEN ExistsOutcomes
                      ELSE ActivateOutcomes :
         ScreenshotSettled(i, outcome) /\ UNCHANGED transportVars
  \/ \E i \in 1..Len(reads) : TimerFired(i) /\ UNCHANGED transportVars
  \/ \E name \in PromptNames :
       \E a \in ValidPromptArgs(name) :
         /\ Len(reads) + Len(prompts) < MaxCalls
         /\ Alone \/ (OverlapPrompt([name |-> name, args |-> a]) /\ Overlap)
         /\ GetPrompt(name, a) /\ UNCHANGED transportVars
  \/ \E l \in HandlerLevels :
       /\ \E i \in 1..Len(reads) : reads[i].at # "done"
       /\ LevelChange(l) /\ UNCHANGED <<toolVars, resourceVars>>

SpecResources == InitResources /\ [][NextResources]_vars

\* The logger: the process loads with or without --verbose; the level is set and the
\* logger's methods are called.
InitLogger ==
  /\ argv \in {<<>>, <<OptVerbose>>}
  /\ InitStartupVars
  /\ config = [transport |-> "stdio", port |-> <<>>]
  /\ InitTransportVars
  /\ invocations = <<>>
  /\ issued = <<>>
  /\ reads = <<>>
  /\ prompts = <<>>

NextLogger ==
  \/ Load /\ UNCHANGED <<transportVars, toolVars, resourceVars>>
  \/ \E l \in LogLevels :
       /\ SetLevel(l) /\ Step
       /\ UNCHANGED <<config, setup, mcpServers, stdioTransports, httpServer, listenPort,
                      ws, readyState, connectedTo, events, writes, sends, listeners,
                      serverConsole, toolVars, resourceVars>>
  \/ \E methodLevel \in LogLevels :
       /\ LogCall(methodLevel) /\ Step
       /\ UNCHANGED <<config, setup, mcpServers, stdioTransports, httpServer, listenPort,
                      ws, readyState, connectedTo, events, writes, sends, listeners,
                      serverConsole, toolVars, resourceVars>>

SpecLogger == InitLogger /\ [][NextLogger]_vars

\* The round trip: over the socket server's adapters, one send of a structured
\* message, and the text it wrote delivered as a frame to an adapter's listener.
InitRoundTrip == InitTransport

NextRoundTrip ==
  \/ SetupServer /\ UNCHANGED <<steps, startupVars, toolVars, resourceVars>>
  \/ \E connectStarts \in BOOLEAN :
       Connection(connectStarts) /\ UNCHANGED <<steps, startupVars, toolVars, resourceVars>>
  \/ \E c \in Conns, m \in RoundTripMessages :
       /\ \A d \in Conns : sends[d] = <<>>
       /\ Send(c, m) /\ Step /\ UNCHANGED <<startupVars, toolVars, resourceVars>>
  \/ \E c \in Conns, d \in Conns :
       \E w \in 1..Len(writes[d]) :
         /\ \A e \in Conns : events[e] \in {<<>>, <<StartCall>>}
         /\ OnMessage(c, writes[d][w].data, FALSE)
         /\ Step /\ UNCHANGED <<startupVars, toolVars, resourceVars>>

SpecRoundTrip == InitRoundTrip /\ [][NextRoundTrip]_vars
(***************************************************************************)
(* Properties.                                                             *)
(***************************************************************************)
\* The number of entries of a sequence that satisfy Pred.
Count(seq, Pred(_)) ==
  Cardinality({i \in 1..Len(seq) : Pred(seq[i])})

IsCloseEvent(e) == e.event = "close"
IsCloseCall(e) == e.event = "close()"
IsMessageEvent(e) == e.event = "message"
CallsOnclose(e) == e.onclose = 1
CallsOnerror(e) == e.onerror = 1
Unparseable(e) == e.event = "message" /\ ~JSONParse(e.data).ok
Parseable(e) == e.event = "message" /\ JSONParse(e.data).ok

\* The adapter was closed: close() was called on it or its socket emitted 'close'.
Closed(c) == \E i \in 1..Len(events[c]) : events[c][i].event \in {"close", "close()"}

\* The step appends a socket event or close() call to connection c's log.
Logged(c) == Len(events'[c]) = Len(events[c]) + 1
LastLogged(c) == events'[c][Len(events'[c])]

\* The step is a send(message) call on connection c's adapter.
SendCalled(c) == Len(sends'[c]) = Len(sends[c]) + 1
LastSend(c) == sends'[c][Len(sends'[c])]

\* C1: in websocket mode no two live sessions are attached to the same
\* message-handling core instance (each accepted connection gets a core of its own).
C1_CorePerConnection ==
  \A a, b \in Conns :
    (a # b /\ ws[a] # "null" /\ ws[b] # "null") => connectedTo[a] # connectedTo[b]

\* C2: a frame that does not parse as JSON invokes onerror exactly once and onmessage
\* not at all, and leaves the adapter open: the socket field is kept, onclose is not
\* invoked, and a later well-formed frame is delivered to onmessage with its value.
C2_MalformedFrameReported ==
  [][\A c \in Conns :
       Logged(c) =>
         /\ Unparseable(LastLogged(c)) =>
              /\ LastLogged(c).onerror = 1
              /\ LastLogged(c).onmessage = 0
              /\ LastLogged(c).onclose = 0
              /\ ws'[c] = ws[c]
              /\ readyState'[c] = readyState[c]
         /\ (Parseable(LastLogged(c)) /\ Count(events[c], Unparseable) > 0) =>
              /\ LastLogged(c).onmessage = 1
              /\ LastLogged(c).delivered = JSONParse(LastLogged(c).data).val]_vars

\* C2 witness: a malformed frame, then a well-formed one delivered, the socket kept.
C2_Witness ==
  \E c \in Conns :
    /\ Len(events[c]) = 3
    /\ Unparseable(events[c][2]) /\ events[c][2].onerror = 1
    /\ Parseable(events[c][3]) /\ events[c][3].onmessage = 1
    /\ ws[c] = "socket"

\* C3: once an adapter is closed (by close() or by the socket's 'close' event), every
\* send(message) rejects and writes nothing to the socket.
C3_SendAfterCloseRejects ==
  [][\A c \in Conns :
       (Closed(c) /\ SendCalled(c)) =>
         /\ LastSend(c).promise = "rejected"
         /\ LastSend(c).reason = "WebSocket not connected"
         /\ writes'[c] = writes[c]]_vars

\* C3 witness: a send rejected after close() on an adapter whose socket has not yet
\* emitted 'close', nothing written.
C3_Witness ==
  \E c \in Conns :
    /\ events[c] = <<StartCall, CloseCall>> /\ readyState[c] = "CLOSING"
    /\ Len(sends[c]) = 1
    /\ sends[c][1].promise = "rejected"
    /\ sends[c][1].reason = "WebSocket not connected"
    /\ writes[c] = <<>>

\* C4: onclose is invoked exactly once over an adapter's lifetime, when its socket
\* closes, however many times close() is called before or after.
C4_OncloseExactlyOnce ==
  \A c \in Conns :
    Count(events[c], CallsOnclose) = IF readyState[c] = "CLOSED" THEN 1 ELSE 0

\* C4 witness: close(), the socket's 'close' event, close() again: one onclose call.
C4_Witness ==
  \E c \in Conns :
    /\ Len(events[c]) = 4
    /\ IsCloseCall(events[c][2]) /\ IsCloseEvent(events[c][3]) /\ IsCloseCall(events[c][4])
    /\ Count(events[c], CallsOnclose) = 1

\* The invocation followed, and what its handler gave.
Invoked == invocations # <<>> /\ invocations[1].at = "done"
Invocation == invocations[1]
Envelope == Invocation.response.envelope
EnvelopeText == Envelope.content[1].text

\* The text a handler returns when init succeeds and the delegated call returns v.
TextFor(tool, a, v) ==
  Handler(tool, a, Returns(Undefined), Returns(v), INFO).envelope.content[1].text

\* Nothing was thrown by autoIt.init() or by the delegated call.
NoFault == ~Invocation.init.threw /\ ~Invocation.call.threw

\* C5: every invocation of every tool handler returns exactly one envelope, with one
\* text item, and throws nothing past the handler, whatever init and the delegated
\* call do: throw, return an unexpected value, or succeed.
C5_HandlerAlwaysReturnsEnvelope ==
  Invoked =>
    /\ ~Invocation.response.threw
    /\ Len(Envelope.content) = 1
    /\ Envelope.content[1].type = "text"
    /\ Envelope.isError \in BOOLEAN

\* C5 witness: controlGetPos got no rectangle from the delegated call and returned an
\* envelope all the same.
C5_Witness ==
  /\ Invoked /\ Invocation.tool = "controlGetPos" /\ NoFault
  /\ Invocation.call.value = Undefined
  /\ ~Invocation.response.threw /\ Len(Envelope.content) = 1

\* The handlers whose text depends on a test of the delegated result.
TestsForOne ==
  {"processClose", "processSetPriority", "processWaitClose", "shutdown",
   "winActive", "winExists", "winWait", "winWaitActive", "winWaitClose",
   "controlClick", "controlClickByHandle", "controlSetText", "controlSend",
   "controlFocus", "controlMove", "controlShow", "controlHide"}
TestsForNonZero == {"processExists", "processWait"}

\* C6 as stated: for every handler, a returned result other than the success
\* sentinel (0 here) gives failure-phrased text, so not the text given for success,
\* and no error flag; a thrown fault gives the error flag.
C6_EveryHandlerPhrasesFailure ==
  Invoked =>
    /\ (NoFault /\ Invocation.call.value = Num(0)) =>
         /\ ~Envelope.isError
         /\ EnvelopeText # TextFor(Invocation.tool, Invocation.args, Num(1))
    /\ ~NoFault => Envelope.isError

\* C6 amended: a returned number never sets the error flag.  The handlers that test
\* the result give one success text when it passes (=== 1, or !== 0 for processExists
\* and processWait) and one different failure text for every number that fails; the
\* other handlers have no failure text: they give the success text with at most the
\* number shown in it changed.  A thrown fault gives the error flag.
C6_FailureTextOnlyWhereTested ==
  Invoked =>
    LET tool == Invocation.tool
        a == Invocation.args
        v == Invocation.call.value
        success == TextFor(tool, a, Num(1))
        failure == TextFor(tool, a, Num(0))
    IN
    /\ (NoFault /\ v.kind = "num") =>
         /\ ~Envelope.isError
         /\ tool \in TestsForOne =>
              /\ success # failure
              /\ EnvelopeText = IF v.num = 1 THEN success ELSE failure
         /\ tool \in TestsForNonZero =>
              /\ success # failure
              /\ v.num = 0 => EnvelopeText = failure
              /\ v.num # 0 => EnvelopeText # failure
         /\ tool \notin TestsForOne \cup TestsForNonZero =>
              \/ EnvelopeText = success
              \/ Len(EnvelopeText) - Len(ToString(v.num)) = Len(success) - 1
    /\ ~NoFault => Envelope.isError

\* C6 witness: winActivate returned 0 and the text still says the window was
\* activated, without the error flag.
C6_Witness ==
  /\ Invoked /\ Invocation.tool = "winActivate" /\ NoFault
  /\ Invocation.call.value = Num(0)
  /\ EnvelopeText = "Window \"Notepad\" activated with result: 0"
  /\ ~Envelope.isError

\* C7 as stated: the envelope carries the error flag exactly when autoIt.init() or
\* the delegated call threw.
C7_ErrorFlagIffCallFault ==
  Invoked => (Envelope.isError <=> ~NoFault)

\* The handlers that read a property of the delegated result.
ReadsResultProperty == {"mouseGetPos", "winGetPos", "controlGetPos"}

\* C7 amended: the envelope carries the error flag exactly when a fault was thrown in
\* the handler's try block: by autoIt.init(), by the delegated call, or by the
\* handler's own code reading a property of a result that is undefined (mouseGetPos,
\* winGetPos, controlGetPos).  A returned number never sets the flag.
C7_ErrorFlagIffFaultInHandler ==
  Invoked =>
    /\ Envelope.isError <=>
         \/ ~NoFault
         \/ /\ Invocation.tool \in ReadsResultProperty
            /\ Invocation.call.value = Undefined
    /\ (NoFault /\ Invocation.call.value.kind = "num") => ~Envelope.isError

\* C7 witness: winGetPos got undefined from a delegated call that did not throw, and
\* its envelope carries the error flag.
C7_Witness ==
  /\ Invoked /\ Invocation.tool = "winGetPos" /\ NoFault
  /\ Invocation.call.value = Undefined
  /\ Envelope.isError
  /\ EnvelopeText = "Error: Cannot read properties of undefined (reading 'right')"

\* C8: with a transport kind that is neither stdio nor websocket, startServer exits
\* with code 1 having constructed and connected no transport and without starting
\* again, and setupServer throws having constructed no transport, HTTP server or
\* listening socket.
C8_UnsupportedTransportFailsFast ==
  /\ (pc \in {"running", "exited"} /\ transport \notin {Stdio, Websocket}) =>
       /\ pc = "exited" /\ exitCode = <<1>>
       /\ mainTransports = [stdio |-> 0, websocket |-> 0]
       /\ mainServer.connected = 0
       /\ console = <<<<ERROR, "Failed to start server">>>>
       /\ ~ENABLED StartServer
       /\ ~ENABLED (\E t \in BOOLEAN : StartServerConnected(t))
  /\ (setup # "idle" /\ config.transport \notin {"stdio", "websocket"}) =>
       /\ setup = "threw"
       /\ stdioTransports = 0 /\ httpServer = "none" /\ listenPort = 0
       /\ ws = <<>>

\* C8 witness: --transport=tcp ended in exit code 1, and setupServer threw.
C8_Witness ==
  /\ pc = "exited" /\ transport = <<"t", "c", "p">> /\ exitCode = <<1>>
  /\ setup = "threw" /\ config.transport = "http"

\* C9: started with stdio or with websocket, and unless connecting fails, the process
\* connects a live transport and reports 'Server started successfully'.
C9_BothTransportsStart ==
  (/\ pc \in {"running", "exited"}
   /\ transport \in {Stdio, Websocket}
   /\ \A i \in 1..Len(console) : console[i][2] # "Failed to start server")
  => /\ pc = "running"
     /\ mainServer.connected = 1
     /\ \E i \in 1..Len(console) : console[i][2] = "Server started successfully"

\* C10: a send on an open adapter makes exactly one socket write, of the serialized
\* message, and its promise follows that write's completion callback: pending until
\* it fires, resolved if it reports no error, rejected if it reports one.
C10_SendSettlesWithWrite ==
  \A c \in Conns :
    /\ ws[c] = "socket" => \A i \in 1..Len(sends[c]) : sends[c][i].write # 0
    /\ Len(writes[c]) = Cardinality({i \in 1..Len(sends[c]) : sends[c][i].write # 0})
    /\ \A i \in 1..Len(sends[c]) :
         LET p == sends[c][i] IN
         p.write # 0 =>
           /\ p.write \in 1..Len(writes[c])
           /\ \A j \in 1..Len(sends[c]) : sends[c][j].write = p.write => j = i
           /\ writes[c][p.write].data = JSONStringify(p.message)
           /\ p.promise = "pending" <=> writes[c][p.write].cb = "pending"
           /\ p.promise = "resolved" <=> writes[c][p.write].cb = "ok"
           /\ p.promise = "rejected" <=> writes[c][p.write].cb = "error"

\* C10 witness: on one adapter a send resolved after its write completed while a
\* second one is still pending on its own write.
C10_Witness ==
  \E c \in Conns :
    /\ Len(sends[c]) = 2 /\ Len(writes[c]) = 2
    /\ sends[c][1].promise = "resolved" /\ writes[c][1].cb = "ok"
    /\ sends[c][2].promise = "pending" /\ writes[c][2].cb = "pending"

\* C11: an adapter goes Open -> Closed and stays there: its socket field is set from
\* construction, and once cleared (by close() or by the socket's 'close' event) no
\* later operation or event sets it again.
C11_ClosedIsTerminal ==
  [][/\ Len(ws') >= Len(ws)
     /\ \A c \in 1..Len(ws') :
          IF c > Len(ws) THEN ws'[c] = "socket"
          ELSE /\ ws'[c] \in {"socket", "null"}
               /\ ws[c] = "null" => ws'[c] = "null"]_vars

\* C11 witness: an adapter closed by close() took a frame and then the socket's
\* 'close' event, its field still cleared.
C11_Witness ==
  \E c \in Conns :
    /\ Len(events[c]) = 4
    /\ IsCloseCall(events[c][2]) /\ IsMessageEvent(events[c][3])
    /\ IsCloseEvent(events[c][4])
    /\ ws[c] = "null"

\* C12 as claimed: a socket 'error' event calls onerror once, the socket field stays
\* set, onclose is not called (only the socket's 'close' event calls it), and a send
\* that follows on a never-closed adapter is written to the socket: the socket, still
\* open, takes the write.
C12_SendAfterErrorIsWritten ==
  [][\A c \in Conns :
       /\ Logged(c) =>
            /\ LastLogged(c).event = "error" =>
                 /\ LastLogged(c).onerror = 1
                 /\ LastLogged(c).onmessage = 0
                 /\ LastLogged(c).onclose = 0
                 /\ ws'[c] = ws[c]
                 /\ writes'[c] = writes[c] /\ sends'[c] = sends[c]
            /\ LastLogged(c).onclose > 0 => LastLogged(c).event = "close"
       /\ (/\ SendCalled(c)
           /\ ~Closed(c)
           /\ events[c] # <<>>
           /\ events[c][Len(events[c])].event = "error") =>
            /\ LastSend(c).promise = "pending"
            /\ Len(writes'[c]) = Len(writes[c]) + 1
            /\ LastSend(c).write = Len(writes'[c])
            /\ writes'[c][Len(writes'[c])].open]_vars

\* C12: a socket 'error' event calls onerror once and changes nothing else of the
\* adapter: the socket field stays set, the listeners, the sends and the writes stay,
\* onclose is not called (only the socket's 'close' event calls it), and the socket
\* is not closed by the event (it stays as it was, or is CLOSING when the socket
\* library had begun to close it).  A send that follows on a never-closed adapter is
\* handed to the socket, which takes the write exactly when it is still open; a
\* write it does not take never completes without an error.
C12_SocketErrorOnlyForwarded ==
  [][\A c \in Conns :
       /\ Logged(c) =>
            /\ LastLogged(c).event = "error" =>
                 /\ LastLogged(c).onerror = 1
                 /\ LastLogged(c).onmessage = 0
                 /\ LastLogged(c).onclose = 0
                 /\ ws'[c] = ws[c]
                 /\ readyState'[c] \in {readyState[c], "CLOSING"}
                 /\ listeners'[c] = listeners[c]
                 /\ writes'[c] = writes[c] /\ sends'[c] = sends[c]
            /\ LastLogged(c).onclose > 0 => LastLogged(c).event = "close"
       /\ (/\ SendCalled(c)
           /\ ~Closed(c)
           /\ events[c] # <<>>
           /\ events[c][Len(events[c])].event = "error") =>
            /\ LastSend(c).promise = "pending"
            /\ Len(writes'[c]) = Len(writes[c]) + 1
            /\ LastSend(c).write = Len(writes'[c])
            /\ writes'[c][Len(writes'[c])].open <=> readyState[c] = "OPEN"
       /\ \A w \in 1..Len(writes'[c]) :
            ~writes'[c][w].open => writes'[c][w].cb # "ok"]_vars

\* C12 witness: an adapter whose only socket event is an error that left the socket
\* CLOSING still holds the socket; the send that followed was handed to the socket,
\* which did not take the write, and the send's promise is rejected.
C12_Witness ==
  \E c \in Conns :
    /\ Len(events[c]) = 2 /\ events[c][2].event = "error" /\ events[c][2].onerror = 1
    /\ events[c][2].onclose = 0
    /\ ws[c] = "socket" /\ readyState[c] = "CLOSING"
    /\ Len(writes[c]) = 1 /\ ~writes[c][1].open /\ writes[c][1].cb = "error"
    /\ Len(sends[c]) = 1 /\ sends[c][1].write = 1 /\ sends[c][1].promise = "rejected"

\* C13: start() does no socket I/O and registers no listener: a start() call leaves
\* the socket field, the socket, its listeners and the writes as they were, and
\* after any number of calls each frame, error event or close event still runs its
\* callback exactly once.
C13_StartIsNoOp ==
  [][\A c \in Conns :
       Logged(c) =>
         LET e == LastLogged(c) IN
         /\ e.event = "start()" =>
              /\ ws'[c] = ws[c] /\ readyState'[c] = readyState[c]
              /\ listeners'[c] = listeners[c]
              /\ writes'[c] = writes[c] /\ sends'[c] = sends[c]
              /\ e.onmessage = 0 /\ e.onerror = 0 /\ e.onclose = 0
         /\ Parseable(e) => e.onmessage = 1
         /\ Unparseable(e) => e.onmessage = 0 /\ e.onerror = 1
         /\ e.event = "error" => e.onerror = 1
         /\ e.event = "close" => e.onclose = 1]_vars

\* C13 witness: start() was called twice on an adapter and the frame that followed
\* reached onmessage once.
C13_Witness ==
  \E c \in Conns :
    /\ Len(events[c]) = 3
    /\ events[c][1].event = "start()" /\ events[c][2].event = "start()"
    /\ Parseable(events[c][3]) /\ events[c][3].onmessage = 1
    /\ listeners[c] = 1

\* C14: a handler awaits autoIt.init() first and then issues exactly one delegated
\* call, the one of its tool: never a delegated call before init has completed (none
\* at all when init throws), never a second one; an invocation that returns without
\* the error flag has made both calls, in that order.
C14_InitThenOneDelegatedCall ==
  \A i \in 1..Len(invocations) :
    LET h == invocations[i]
        calls == h.response.calls
    IN /\ calls[1] = "init"
       /\ h.at = "init" => calls = <<"init">>
       /\ h.at = "call" => calls = <<"init", h.tool>> /\ h.init.settled /\ ~h.init.threw
       /\ h.at = "done" =>
            /\ IF h.init.threw THEN calls = <<"init">> ELSE calls = <<"init", h.tool>>
            /\ ~h.response.envelope.isError => calls = <<"init", h.tool>>

\* C14 witness: runAs returned a success envelope after init and one runAs call.
C14_Witness ==
  /\ Invoked /\ Invocation.tool = "runAs" /\ NoFault
  /\ ~Envelope.isError
  /\ Invocation.response.calls = <<"init", "runAs">>

\* C15: whenever a transport is connected to a message-handling core, that core
\* already has all the tools of registerAllTools registered: the core of startServer
\* and the core of setupServer, for stdio and for every accepted socket.
C15_RegistryBeforeConnect ==
  /\ mainServer.connected > 0 => mainServer.registered
  /\ (stdioTransports > 0 \/ Len(connectedTo) > 0) => SetupServerRegistry = Tools

\* C17: the text send(m) writes to the socket, fed to an adapter's 'message'
\* listener, reaches onmessage as a value equal to m, and onerror is not called.
C17_RoundTrip ==
  \A c \in Conns :
    \A i \in 1..Len(events[c]) :
      LET e == events[c][i] IN
      IsMessageEvent(e) =>
        \E d \in Conns :
          \E j \in 1..Len(sends[d]) :
            /\ sends[d][j].write # 0
            /\ writes[d][sends[d][j].write].data = e.data
            /\ e.onmessage = 1
            /\ e.onerror = 0
            /\ e.delivered = sends[d][j].message

\* C17 witness: a message whose result is the string a"b came back equal, its text on
\* the wire carrying the escaped quote.
C17_Witness ==
  \E c \in Conns :
    /\ Len(events[c]) = 2 /\ events[c][2].onmessage = 1
    /\ events[c][2].delivered =
         <<"obj", << <<<<"i", "d">>, <<"num", 1>>>>,
                     <<<<"r", "e", "s", "u", "l", "t">>,
                       <<"str", <<"a", "\"", "b">>>>>> >> >>
    /\ events[c][2].data =
         <<"{", "\"", "i", "d", "\"", ":", "1", ",", "\"", "r", "e", "s", "u", "l", "t",
           "\"", ":", "\"", "a", "\\", "\"", "b", "\"", "}">>

\* The fault a handler's catch block received: what init threw, else what the
\* delegated call threw, else the TypeError raised while the text was built.
Caught ==
  IF Invocation.init.threw THEN Invocation.init.fault
  ELSE IF Invocation.call.threw THEN Invocation.call.fault
  ELSE ErrorFault(ToolText(Invocation.tool, Invocation.args,
                           Invocation.call.value).message)
Catches ==
  \/ ~NoFault
  \/ ToolText(Invocation.tool, Invocation.args, Invocation.call.value).threw

\* C18: when a handler catches a fault, the envelope is error-flagged and its text is
\* "Error: " followed by the fault's message if the fault is an Error and by the
\* fault's string form otherwise; clipGet whose call throws "access denied" gives an
\* error-flagged "Error: access denied".
C18_ErrorTextFromFault ==
  (Invoked /\ Catches) =>
    /\ ~Invocation.response.threw
    /\ Envelope.isError
    /\ Len(Envelope.content) = 1
    /\ EnvelopeText = "Error: " \o (IF Caught.kind = "Error" THEN Caught.message
                                    ELSE Caught.string)
    /\ (/\ Invocation.tool = "clipGet" /\ ~Invocation.init.threw
        /\ Invocation.call.threw /\ Invocation.call.fault.kind # "object")
         => EnvelopeText = "Error: access denied"

\* C18 witness: clipGet, init succeeded, the delegated call threw the string
\* "access denied", and the handler returned the flagged text.
C18_Witness ==
  /\ Invoked /\ Invocation.tool = "clipGet"
  /\ ~Invocation.init.threw
  /\ Invocation.call = Throws(StringFault("access denied"))
  /\ Envelope.isError
  /\ EnvelopeText = "Error: access denied"

\* The string form of a returned value, as `${result}` gives it.
StringForm(v) ==
  CASE v.kind = "num" -> ToString(v.num)
    [] v.kind = "str" -> v.str
    [] v.kind = "undefined" -> "undefined"
    [] OTHER -> "[object Object]"

\* C19: winActivate with title T whose delegated call returns r gives an envelope
\* with no error flag and the single text item
\* Window "T" activated with result: r.
C19_WinActivateText ==
  (Invoked /\ Invocation.tool = "winActivate" /\ NoFault) =>
    /\ ~Invocation.response.threw
    /\ ~Envelope.isError
    /\ Len(Envelope.content) = 1
    /\ Envelope.content[1].type = "text"
    /\ EnvelopeText = "Window \"" \o Invocation.args.title
                        \o "\" activated with result: "
                        \o StringForm(Invocation.call.value)

\* C19 witness: title Notepad, result 1.
C19_Witness ==
  /\ Invoked /\ Invocation.tool = "winActivate" /\ NoFault
  /\ Invocation.args.title = "Notepad"
  /\ Invocation.call.value = Num(1)
  /\ ~Envelope.isError
  /\ EnvelopeText = "Window \"Notepad\" activated with result: 1"

\* The value of an option argument: the text after its '=', which a further '=' ends.
OptionValue(arg) ==
  LET eqs == {k \in 1..Len(arg) : arg[k] = "="}
      first == CHOOSE k \in eqs : \A j \in eqs : k <= j
      later == {k \in eqs : k > first} \cup {Len(arg) + 1}
      stop == CHOOSE k \in later : \A j \in later : k <= j
  IN SubSeq(arg, first + 1, stop - 1)

\* The digits a text begins with.
LeadingDigits(t) ==
  LET n == CHOOSE k \in 0..Len(t) :
             /\ \A j \in 1..k : IsDigit(t[j])
             /\ (k < Len(t) => ~IsDigit(t[k + 1]))
  IN SubSeq(t, 1, n)

\* C20: once the command line is parsed, the transport kind is 'stdio' when no
\* --transport= argument was given and the value after '=' when one was; the port is
\* 3000 when no --port= argument was given and the base-10 integer the value after
\* '=' begins with when one was (no number when it begins with no digit).
C20_CommandLineDefaults ==
  pc # "load" =>
    LET transportArgs == {i \in 1..Len(argv) : StartsWith(argv[i], OptTransport)}
        portArgs == {i \in 1..Len(argv) : StartsWith(argv[i], OptPort)}
    IN /\ transportArgs = {} => transport = <<"s", "t", "d", "i", "o">>
       /\ \A i \in transportArgs : transport = OptionValue(argv[i])
       /\ portArgs = {} => port = <<3000>>
       /\ \A i \in portArgs :
            LET digits == LeadingDigits(OptionValue(argv[i])) IN
            IF digits = <<>> THEN port = <<>>
            ELSE Len(port) = 1 /\ NumberText(port[1]) = digits

\* C20 witness: the command line --transport=websocket, with no port, gave the kind
\* websocket and the port 3000.
C20_Witness ==
  /\ pc # "load"
  /\ argv = <<OptTransport \o Websocket>>
  /\ transport = Websocket /\ port = <<DefaultPort>>

\* A resource was read; the read and what its callback gave.
WasRead == reads # <<>> /\ reads[1].at = "done"
Read == reads[1]
Named == Read.window # <<>> /\ Read.window[1] # ""
Calls(name) ==
  Cardinality({i \in 1..Len(Read.response.calls) : Read.response.calls[i] = name})

\* None of the delegated calls the screenshot callback came to make threw.
NoScreenshotFault ==
  /\ ~Read.init.threw
  /\ Named => ~Read.exists.threw
  /\ (Named /\ ~Falsy(Read.exists.value)) => ~Read.activate.threw

\* C21: the screenshot callback, when no delegated call throws: for a window name
\* whose winExists is truthy it calls winActivate exactly once and returns the
\* placeholder; for one whose winExists is falsy it raises a fault and never calls
\* winActivate; for no window name it calls neither winExists nor winActivate and
\* returns the placeholder.  Every fault is raised past the callback: nothing is
\* returned.
C21_ScreenshotCallback ==
  (WasRead /\ Read.resource = "screenshot") =>
    LET r == Read.response
        Placeholder(what) ==
          <<[uri |-> Read.href, key |-> "text", mimeType |-> "text/plain",
             data |-> "Screenshot of " \o what \o " would be captured here"]>>
    IN /\ (NoScreenshotFault /\ Named /\ ~Falsy(Read.exists.value)) =>
            /\ Calls("winExists") = 1 /\ Calls("winActivate") = 1
            /\ r.calls[Len(r.calls)] = "winActivate"
            /\ ~r.threw /\ r.contents = Placeholder(Read.window[1])
       /\ (NoScreenshotFault /\ Named /\ Falsy(Read.exists.value)) =>
            /\ Calls("winExists") = 1 /\ Calls("winActivate") = 0
            /\ r.threw /\ r.contents = <<>>
            /\ r.message = "Failed to take screenshot: Window \"" \o Read.window[1]
                             \o "\" not found"
       /\ (NoScreenshotFault /\ ~Named) =>
            /\ Calls("winExists") = 0 /\ Calls("winActivate") = 0
            /\ ~r.threw /\ r.contents = Placeholder("full screen")
       /\ ~NoScreenshotFault => r.threw /\ r.contents = <<>>

\* C21 witness: winExists("Notepad") gave 0, and the callback raised the fault after
\* init and winExists alone.
C21_Witness ==
  /\ WasRead /\ Read.resource = "screenshot"
  /\ Read.window = <<"Notepad">> /\ NoScreenshotFault
  /\ Read.exists = Returns(Num(0))
  /\ Read.response.threw
  /\ Read.response.calls = <<"init", "winExists">>

\* What the files read are to give: the key, the MIME type and the data.
ExpectedItem(name) ==
  CASE name = "C:/docs/notes.TXT" -> <<"text", "text/plain", "Hi\n">>
    [] name = "C:/docs/page.html" -> <<"text", "text/html", "<p>">>
    [] name = "C:/docs/run.ps1" -> <<"text", "application/octet-stream", "ls">>
    [] name = "C:/docs/data.json" -> <<"text", "application/json", "{}">>
    [] name = "C:/docs/pic.png" -> <<"blob", "image/png", "iVBORw==">>
    [] name = "C:/docs/archive.xyz" -> <<"blob", "application/octet-stream", "YWI=">>
    [] name = "C:/docs/README" -> <<"blob", "application/octet-stream", "SGk=">>
    [] name = "C:/docs/.gitignore" -> <<"blob", "application/octet-stream", "YQ==">>
    [] name = "C:/docs/a.tar.gz" -> <<"blob", "application/gzip", "H4s=">>
    [] name = "C:/docs/bad.txt" -> <<"text", "text/plain", "HU+FFFD">>

\* C22: the file callback returns exactly one content item: for a directory,
\* listing text with MIME type text/plain; for a file, text when the lower-cased
\* extension is in the text-extension list and a base64 blob otherwise, with the
\* MIME type of the extension (application/octet-stream when unknown); a missing
\* path raises a fault and returns nothing, whether it is missing when the callback
\* asks for its status or is removed before the callback reads it.
C22_FileCallback ==
  (WasRead /\ Read.resource = "file") =>
    LET r == Read.response
        filePath == JoinWith(Read.path, <<"/">>)
        name == Join(filePath)
        stats == Stat(name)
    IN /\ (stats.kind = "missing" \/ Read.removed) => r.threw /\ r.contents = <<>>
       /\ r.threw => r.contents = <<>>
       /\ ~r.threw =>
            /\ Len(r.contents) = 1
            /\ r.contents[1].uri = Read.href
       /\ (stats.kind = "directory" /\ ~r.threw) =>
            /\ r.contents[1].key = "text"
            /\ r.contents[1].mimeType = "text/plain"
            /\ name = "C:/docs" =>
                 r.contents[1].data = "Directory: C:/docs\nnotes.TXT\npic.png"
       /\ (stats.kind = "file" /\ ~Read.removed) =>
            /\ ~r.threw
            /\ r.contents[1].key = "text"
                 <=> Join(ToLowerCase(Extname(filePath))) \in TextExtensions
            /\ <<r.contents[1].key, r.contents[1].mimeType, r.contents[1].data>>
                 = ExpectedItem(name)

\* C22 witness: notes.TXT came back as text/plain text, by its lower-cased extension.
C22_Witness ==
  /\ WasRead /\ Read.resource = "file"
  /\ Join(JoinWith(Read.path, <<"/">>)) = "C:/docs/notes.TXT"
  /\ Len(Read.path) = 2
  /\ ~Read.response.threw
  /\ Read.response.contents[1].key = "text"
  /\ Read.response.contents[1].mimeType = "text/plain"

\* C23: the process operations keep their own success tests.  processExists and
\* processWait take every result other than 0 for success and report it as the PID, and
\* 0 for 'does not exist' / 'timed out'; processClose, processSetPriority,
\* processWaitClose and shutdown take only the result 1 for success.  None of these
\* texts is error-flagged.
C23_ProcessSuccessTests ==
  (Invoked /\ NoFault) =>
    LET tool == Invocation.tool
        v == Invocation.call.value
        zero == v.kind = "num" /\ v.num = 0
        one == v.kind = "num" /\ v.num = 1
        quoted == "\"" \o Invocation.args.process \o "\""
        pid == "Process " \o quoted \o " exists with PID: " \o StringForm(v)
    IN /\ tool \in {"processExists", "processClose", "processSetPriority",
                    "processWait", "processWaitClose", "shutdown"}
            => ~Envelope.isError /\ Len(Envelope.content) = 1
       /\ tool = "processExists" =>
            EnvelopeText = IF zero THEN "Process " \o quoted \o " does not exist" ELSE pid
       /\ tool = "processWait" =>
            EnvelopeText = IF zero THEN "Timed out waiting for process " \o quoted
                           ELSE pid
       /\ tool = "processClose" =>
            EnvelopeText = IF one THEN "Process " \o quoted \o " closed successfully"
                           ELSE "Failed to close process " \o quoted
       /\ tool = "processSetPriority" =>
            EnvelopeText = IF one
                             THEN "Priority for process " \o quoted \o " set to "
                                    \o ToString(Invocation.args.priority)
                             ELSE "Failed to set priority for process " \o quoted
       /\ tool = "processWaitClose" =>
            EnvelopeText = IF one
                             THEN "Process " \o quoted \o " closed within the timeout"
                             ELSE "Timed out waiting for process " \o quoted
                                    \o " to close"
       /\ tool = "shutdown" =>
            EnvelopeText = IF one
                             THEN "System shutdown initiated with flags: "
                                    \o ToString(Invocation.args.flags)
                             ELSE "Failed to initiate system shutdown"

\* C23 witness: processExists for notepad.exe with the result 0.
C23_Witness ==
  /\ Invoked /\ NoFault /\ Invocation.tool = "processExists"
  /\ Invocation.args.process = "notepad.exe"
  /\ Invocation.call.value = Num(0)
  /\ ~Envelope.isError
  /\ EnvelopeText = "Process \"notepad.exe\" does not exist"

\* C24: loading sets the logger level to 0 when --verbose is among the arguments and
\* to 2 otherwise; a message of level L is written if and only if the configured
\* level is at most L, so that an error message is written at every level and a
\* verbose message at level 0 alone.
C24_LogLevelFilter ==
  [][/\ Load => level' = IF \E i \in 1..Len(argv) : argv[i] = OptVerbose THEN 0 ELSE 2
     /\ \A L \in 0..4 :
          (LogCall(L) /\ Step) =>
            /\ console' # console <=> level <= L
            /\ level <= L => console' = Append(console, <<L, "message">>)
            /\ L = 4 => console' # console
            /\ L = 0 => (console' # console <=> level = 0)]_vars

\* C24 witness: loaded with --verbose, the logger wrote a verbose message and then an
\* error message.
C24_Witness ==
  /\ argv = <<OptVerbose>> /\ pc = "main" /\ level = 0
  /\ console = <<<<0, "message">>, <<4, "message">>>>

\* C26: after close() has been called on an adapter, no message callback is invoked
\* on it: a frame the socket delivers between close() and its 'close' event does not
\* reach onmessage.
C26_NoMessageAfterClose ==
  \A c \in Conns :
    \A i \in 1..Len(events[c]), j \in 1..Len(events[c]) :
      (i < j /\ IsCloseCall(events[c][i]) /\ IsMessageEvent(events[c][j]))
        => events[c][j].onmessage = 0

\* C27: for each inbound frame exactly one of onmessage and onerror is invoked, and
\* onerror (with 'Failed to parse message') only for a frame that does not parse,
\* also when onmessage throws on a well-formed frame.
C27_OneCallbackPerFrame ==
  \A c \in Conns :
    \A i \in 1..Len(events[c]) :
      LET e == events[c][i] IN
      IsMessageEvent(e) =>
        /\ e.onmessage + e.onerror = 1
        /\ e.onerror > 0 => Unparseable(e)

\* The step is the completion callback of write w on connection c, with an error.
WriteFailed(c, w) ==
  /\ w \in 1..Len(writes[c])
  /\ writes[c][w].cb = "pending" /\ writes'[c][w].cb = "error"

\* C28: a send whose socket write fails rejects with the write's error and changes
\* nothing else: the socket field is kept, nothing is called back, nothing is written
\* again for it, the other sends stay as they were; and a later send on the adapter
\* is written to the socket.
C28_FailedWriteOnlyRejects ==
  [][\A c \in Conns :
       /\ \A w \in 1..Len(writes[c]) :
            WriteFailed(c, w) =>
              /\ \A i \in 1..Len(sends[c]) :
                   IF sends[c][i].write = w
                     THEN /\ sends'[c][i].promise = "rejected"
                          /\ sends'[c][i].reason = "write failed"
                     ELSE sends'[c][i] = sends[c][i]
              /\ Len(sends'[c]) = Len(sends[c])
              /\ Len(writes'[c]) = Len(writes[c])
              /\ ws'[c] = ws[c] /\ readyState'[c] = readyState[c]
              /\ events'[c] = events[c]
       /\ (/\ SendCalled(c)
           /\ \E i \in 1..Len(sends[c]) : sends[c][i].reason = "write failed"
           /\ ~Closed(c))
            => /\ LastSend(c).promise = "pending"
               /\ Len(writes'[c]) = Len(writes[c]) + 1
               /\ writes'[c][Len(writes'[c])].data = JSONStringify(LastSend(c).message)]_vars

\* C28 witness: a send rejected by its failed write, the socket kept and nothing
\* called back, and the next send written as the second write.
C28_Witness ==
  \E c \in Conns :
    /\ Len(sends[c]) = 2 /\ Len(writes[c]) = 2
    /\ sends[c][1].promise = "rejected" /\ sends[c][1].reason = "write failed"
    /\ writes[c][1].cb = "error"
    /\ sends[c][2].promise = "pending" /\ sends[c][2].write = 2
    /\ ws[c] = "socket" /\ events[c] = <<StartCall>>

\* C29: if autoIt.init() throws inside a tool handler, the handler issues no delegated
\* call at all and returns an error-flagged envelope that carries the init fault's
\* message.
C29_InitFaultStopsHandler ==
  (Invoked /\ Invocation.init.threw) =>
    LET f == Invocation.init.fault IN
    /\ Invocation.response.calls = <<"init">>
    /\ ~Invocation.response.threw
    /\ Envelope.isError
    /\ EnvelopeText = "Error: " \o (IF f.kind = "Error" THEN f.message ELSE f.string)
    /\ EnvelopeText = "Error: init failed"

\* C29 witness: shutdown whose init threw Error('init failed'): the delegated call
\* was never issued, so never settled.
C29_Witness ==
  /\ Invoked /\ Invocation.tool = "shutdown"
  /\ Invocation.init = Throws(ErrorFault("init failed"))
  /\ Invocation.call = Pending
  /\ Invocation.response.calls = <<"init">>
  /\ Envelope.isError /\ EnvelopeText = "Error: init failed"

\* C30: for runAs and runAsWait the password reaches the delegated call alone: an
\* invocation that differs only in the password, with the same delegated result, gives
\* the logger the same data and lines and returns the same envelope.
C30_PasswordOnlyInCall ==
  (Invoked /\ Invocation.tool \in {"runAs", "runAsWait"} /\ NoFault) =>
    \A password \in Passwords :
      LET other == [Invocation.args EXCEPT !.password = password]
          response == Handler(Invocation.tool, other, Invocation.init, Invocation.call,
                              level)
      IN /\ response.envelope = Envelope
         /\ \A l \in LogLevels :
              Handler(Invocation.tool, other, Invocation.init, Invocation.call, l).console
                = Handler(Invocation.tool, Invocation.args, Invocation.init,
                          Invocation.call, l).console
         /\ CalledData(Invocation.tool, other) = Invocation.calledData
         /\ password # Invocation.args.password
              => RunAsArguments(other) # RunAsArguments(Invocation.args)

\* C30 witness: runAs with the password hunter2 returned its process id text.
C30_Witness ==
  /\ Invoked /\ Invocation.tool = "runAs" /\ NoFault
  /\ Invocation.args.password = "hunter2"
  /\ Invocation.calledData # <<>>
  /\ Invocation.call.value = Num(4242)
  /\ EnvelopeText
       = "Program \"notepad.exe\" started as user \"admin\" with process ID: 4242"
====
